---- MODULE Spec2Model ----
(***************************************************************************)
(* Scoring, ranking and round iteration of the TPG toolkit.                *)
(*                                                                         *)
(* Units.  A distance is an integer number of hectometres (1 hm = 0.1 km), *)
(* so that the 5K threshold of 0.1 km and the antipode threshold of        *)
(* 19_995 km are both exact.  A float is a record [k, n, d]: the rational  *)
(* n/d when k = "num", and the IEEE special values when k is "nan", "inf"  *)
(* or "-inf".  Python's None is the record with k = "none".                *)
(***************************************************************************)
EXTENDS Integers, Sequences, FiniteSets, TLC

VARIABLES
    distances,       \* the Series of distances handed to the scoring functions (hm)
    world_distance,  \* world_distance argument (km)
    fivek_score,     \* fivek_score argument (float or None)
    fivek_threshold, \* fivek_threshold argument (hm)
    allow_negative,  \* allow_negative argument
    fn,              \* the function whose result is held ("" before any call)
    scores,          \* the Series of scores returned by tpg_score / custom_tpg_score
    gdf,             \* the table returned by calc_scores (rows in output order)
    place,           \* the 'place' column of the theoretical-best replay
    raised,          \* the exception raised by the last call ("" when none)
    rounds,          \* submission_tracker.rounds: sequence of rounds, each a sequence of submissions
    version,         \* which revision of _iter_scored_rounds runs ("todo" or "checked")
    pos,             \* generator position: index of the next round to look at
    yielded,         \* the (round, gdf) pairs yielded so far
    round_names,     \* the name of each round of submission_tracker.rounds
    columns,         \* the columns of the table handed to calc_scores
    points_leaderboard,   \* score_kml: {round name: {player name: score}}
    distance_leaderboard, \* score_kml: {round name: {player name: distance in km}}
    medals,          \* score_kml: {player name: [medals from all rounds]}
    points_table,    \* the points leaderboard output_season prints (rows in order)
    distance_table,  \* the distance leaderboard output_season prints
    medals_table,    \* the table count_medals returns
    existing_rounds, \* get_simulation: the rounds of the submission tracker, or <<>>
    targets,         \* get_simulation: the rows of the targets file, or <<>>
    num_random_rounds, \* get_simulation: how many random rounds to draw
    single_point,    \* get_simulation: the single point, or <<>>
    sim_rounds,      \* get_simulation: its dict rounds, as (key, target) pairs in order
    sim_order,       \* get_simulation: its dict order, as (key, number) pairs in order
    points,          \* get_closest_point / get_best_pic: the point set, a sequence of points
    target,          \* get_closest_point / get_best_pic: the target point
    tie_order,       \* which of the rows of equal key sort_values puts first in this build
    closest,         \* the point selected and its distance, <<>> before the call
    pics_per_user,   \* theoretical best: {username: table of distinct pictures}
    tpg_rounds,      \* theoretical best: the target of each round, by round number
    in_process,      \* theoretical best: does every call work on an unpickled copy
    shared_pics,     \* theoretical best: the tables as the calls of one process leave them
    new_rows,        \* theoretical best: {round number: rows of _get_new_round_rows}
    best_rows,       \* theoretical best: the rows of the DataFrame returned
    old_round,       \* compare_rounds: the historical round
    new_round,       \* compare_rounds: the submissions of the simulated round
    name,            \* compare_rounds: the player looked at, "" for None
    printed,         \* compare_rounds: the lines printed, in order
    ignore_ongoing,  \* score_kml: its argument ignore_ongoing
    season,          \* the leaderboards of an earlier run of score_kml, <<>> when none
    main_rounds,     \* main of Score submissions.py: its list rounds
    last_round_num,  \* main: the highest round number of the path loaded last
    options,         \* main: the ScoringOptions built from the command line
    ongoing_round,   \* main: args.ongoing_round
    scored_rounds,   \* main: its list scored_rounds
    leaderboard_rounds, \* main: the list handed to make_leaderboards
    subs_per_user,   \* load_point_sets / get_pics: the pictures per player, as items in order
    player_names,    \* load_point_sets: display name per username, <<>> for the empty dict
    threshold,       \* --threshold, <<>> for None
    points_path,     \* whether --points-path is given
    additional_folders, \* --add-from-folder: per folder the stems of its files
    additional_players, \* --add-player: the names
    point_sets,      \* the list load_point_sets returns
    all_pics,        \* the dict get_pics returns, as items in order
    path,            \* latest_file_matching_format_pattern: the name of its argument
    parent_files,    \* the names of the files of path.parent
    latest_path,     \* the name of the path that is returned, <<>> before the call
    max_round_num,   \* get_all_submissions: its argument, <<>> for None
    cur_round_num,   \* get_all_submissions: its local round_num
    all_submissions, \* get_all_submissions: its dict subs, as items in order
    requests         \* the calls of get_round_submissions so far, each with what it returned

scoreVars == <<distances, world_distance, fivek_score, fivek_threshold, allow_negative,
               fn, scores, gdf, place, raised>>
seasonVars == <<rounds, version, pos, yielded>>
boardVars == <<points_leaderboard, distance_leaderboard, medals>>
tableVars == <<points_table, distance_table, medals_table>>
simVars == <<existing_rounds, targets, num_random_rounds, single_point, sim_rounds, sim_order>>
closestVars == <<points, target, closest>>
bestVars == <<pics_per_user, tpg_rounds, in_process, shared_pics, new_rows, best_rows>>
cmpVars == <<old_round, new_round, name, printed>>
ongoingVars == <<ignore_ongoing, season>>
pointSetVars == <<subs_per_user, player_names, threshold, points_path, additional_folders,
                  additional_players, point_sets, all_pics>>
latestVars == <<path, parent_files, latest_path>>
fetchVars == <<max_round_num, cur_round_num, all_submissions, requests>>
mainVars == <<main_rounds, last_round_num, options, ongoing_round, scored_rounds,
              leaderboard_rounds>>
extraVars == <<tie_order, closestVars, bestVars, cmpVars, ongoingVars, mainVars, pointSetVars, latestVars, fetchVars>>
restVars == <<round_names, boardVars, tableVars, simVars, extraVars>>
vars == <<distances, world_distance, fivek_score, fivek_threshold, allow_negative,
          fn, scores, gdf, place, raised, rounds, version, pos, yielded,
          round_names, columns, points_leaderboard, distance_leaderboard, medals,
          points_table, distance_table, medals_table,
          existing_rounds, targets, num_random_rounds, single_point, sim_rounds, sim_order,
          extraVars>>

----------------------------------------------------------------------------
(* Bounds of the model *)

MaxN == 3
MaxRounds == 2

\* representative distances (hm): 0 km, 0.1 km (the 5K threshold), 0.2 km,
\* 3000 km, 19_995 km (the antipode threshold), 20_001 km
DistValues == {0, 1, 2, 30000, 199950, 200010}

WorldDistances == {5000, 20000}
Players == {"ann", "bob"}
\* where each player's picture lies from the target (hm): ann within the 5K
\* threshold, bob 3000 km away
PlayerDistance == [n \in Players |-> IF n = "ann" THEN 1 ELSE 30000]

----------------------------------------------------------------------------
(* Float arithmetic *)

RECURSIVE GCD(_, _)
GCD(a, b) == IF b = 0 THEN a ELSE GCD(b, a % b)
Abs(a) == IF a < 0 THEN -a ELSE a

\* the rational n/d (d > 0), in lowest terms
Num(n, d) ==
    LET g == GCD(Abs(n), d)
    IN  [k |-> "num", n |-> n \div g, d |-> d \div g]
NaN == [k |-> "nan", n |-> 0, d |-> 1]
PosInf == [k |-> "inf", n |-> 0, d |-> 1]
NegInf == [k |-> "-inf", n |-> 0, d |-> 1]
None == [k |-> "none", n |-> 0, d |-> 1]

IsNaN(x) == x.k = "nan"
IsFinite(x) == x.k = "num"
Km(hm) == Num(hm, 10)

FNeg(x) ==
    CASE x.k = "num" -> Num(-x.n, x.d)
      [] x.k = "inf" -> NegInf
      [] x.k = "-inf" -> PosInf
      [] OTHER -> x

FAdd(x, y) ==
    IF IsNaN(x) \/ IsNaN(y) THEN NaN
    ELSE IF IsFinite(x) /\ IsFinite(y) THEN Num(x.n * y.d + y.n * x.d, x.d * y.d)
    ELSE IF IsFinite(x) THEN y
    ELSE IF IsFinite(y) \/ x.k = y.k THEN x
    ELSE NaN

FSub(x, y) == FAdd(x, FNeg(y))

\* x * y, y / x for a finite x
FMul(x, y) ==
    IF IsNaN(y) THEN NaN
    ELSE IF IsFinite(y) THEN Num(x.n * y.n, x.d * y.d)
    ELSE IF x.n = 0 THEN NaN
    ELSE IF x.n > 0 THEN y
    ELSE FNeg(y)

\* x / y for a finite y, as numpy divides: nan stays nan, 0/0 is nan, x/0 is
\* +-inf, no exception
FDiv(x, y) ==
    IF IsNaN(x) THEN NaN
    ELSE IF ~IsFinite(x) THEN (IF y.n >= 0 THEN x ELSE FNeg(x))
    ELSE IF y.n = 0
    THEN (IF x.n = 0 THEN NaN ELSE IF x.n > 0 THEN PosInf ELSE NegInf)
    ELSE IF y.n > 0 THEN Num(x.n * y.d, x.d * y.n)
    ELSE Num(-(x.n * y.d), x.d * (-y.n))

\* comparisons; every comparison with nan is false
FLt(x, y) ==
    /\ ~IsNaN(x) /\ ~IsNaN(y)
    /\ \/ IsFinite(x) /\ IsFinite(y) /\ x.n * y.d < y.n * x.d
       \/ x.k = "-inf" /\ y.k # "-inf"
       \/ y.k = "inf" /\ x.k # "inf"
FEq(x, y) ==
    /\ ~IsNaN(x) /\ ~IsNaN(y)
    /\ \/ IsFinite(x) /\ IsFinite(y) /\ x.n * y.d = y.n * x.d
       \/ ~IsFinite(x) /\ x.k = y.k
FLe(x, y) == FLt(x, y) \/ FEq(x, y)

\* Series.clip(0): values below the lower bound become the bound, nan stays nan
Clip0(x) == IF FLt(x, Num(0, 1)) THEN Num(0, 1) ELSE x

\* round n/d (d > 0) to the nearest integer, halves to the even neighbour
RoundHalfEven(n, d) ==
    LET q == n \div d
        r == n - q * d
    IN  IF 2 * r < d THEN q
        ELSE IF 2 * r > d THEN q + 1
        ELSE IF q % 2 = 0 THEN q ELSE q + 1

\* Series.round(2); the result is kept in hundredths
Round2(x) ==
    IF IsFinite(x) THEN [k |-> "num", n |-> RoundHalfEven(100 * x.n, x.d), d |-> 100] ELSE x

\* truthiness of an optional float, as "if fivek_score:" tests it
Truthy(x) == x.k # "none" /\ ~(IsFinite(x) /\ x.n = 0)

----------------------------------------------------------------------------
(* pandas Series.rank on a Series of distances (no missing values) *)

Indices(s) == 1..Len(s)

\* a Series or table with every entry computed: the sequence of its first n
\* entries, and of all of them
RECURSIVE Entries(_, _)
Entries(s, n) == IF n = 0 THEN <<>> ELSE Append(Entries(s, n - 1), s[n])
Computed(s) == Entries(s, Len(s))

\* rank(method='min', ascending=True)
RankMin(s, i) == 1 + Cardinality({j \in Indices(s) : s[j] < s[i]})

\* rank(method='first', ascending=True): ties ranked in order of appearance
RankFirst(s, i) == Cardinality({j \in Indices(s) : s[j] < s[i] \/ (s[j] = s[i] /\ j <= i)})

\* rank(method='max', ascending=True)
RankMax(s, i) == Cardinality({j \in Indices(s) : s[j] <= s[i]})

RECURSIVE FSum(_, _)
FSum(s, idx) ==
    IF idx = {} THEN Num(0, 1)
    ELSE LET i == CHOOSE i \in idx : TRUE
         IN  FAdd(s[i], FSum(s, idx \ {i}))

\* Series.mean() of the members idx of s: missing values are skipped,
\* the mean of nothing is nan
GroupMean(s, idx) ==
    LET present == {i \in idx : ~IsNaN(s[i])}
    IN  IF present = {} THEN NaN
        ELSE FDiv(FSum(s, present), Num(Cardinality(present), 1))

----------------------------------------------------------------------------
(* lib/tpg_utils.py *)

\* players_beaten with rank(method='min')
players_beaten_min(ds, i) == Len(ds) - RankMin(ds, i)

\* players_beaten = distances.size - distances.rank(method='max', ascending=True)
players_beaten(ds, i) == Len(ds) - RankMax(ds, i)

\* players_beaten_scores = 5000 * (players_beaten / (distances.size - 1))
players_beaten_scores(ds, i) ==
    FMul(Num(5000, 1), FDiv(Num(players_beaten(ds, i), 1), Num(Len(ds) - 1, 1)))

\* distance_ranks.map({1: 3000, 2: 2000, 3: 1000}), then 5000 where
\* distances <= 0.1; ranks without an entry map to nan
bonus(ds, i) ==
    IF ds[i] <= 1 THEN Num(5000, 1)
    ELSE CASE RankMin(ds, i) = 1 -> Num(3000, 1)
           [] RankMin(ds, i) = 2 -> Num(2000, 1)
           [] RankMin(ds, i) = 3 -> Num(1000, 1)
           [] OTHER -> NaN

\* bonus.fillna(0)
FillNa0(x) == IF IsNaN(x) THEN Num(0, 1) ELSE x

\* the distance component without its weight of 0.25
tpg_distance_unweighted(ds, i, an) ==
    LET raw == FSub(Num(20000, 1), Km(ds[i]))
    IN  IF an THEN raw ELSE Clip0(raw)

\* the distance component of tpg_score: 0.25 * (20_000 - distances), clipped at 0
\* unless allow_negative
tpg_distance_scores(ds, i, an) ==
    LET raw == FMul(Num(1, 4), FSub(Num(20000, 1), Km(ds[i])))
    IN  IF an THEN raw ELSE Clip0(raw)

\* tpg_score with the antipode 5K written before the bonus is added
tpg_raw_bonus_last(ds, i, an) ==
    FAdd(IF ds[i] >= 199950 THEN Num(5000, 1)
         ELSE FAdd(tpg_distance_scores(ds, i, an), players_beaten_scores(ds, i)),
         FillNa0(bonus(ds, i)))

\* tpg_score before the tie groups are averaged
tpg_raw(ds, i, an) ==
    IF ds[i] >= 199950 THEN Num(5000, 1)
    ELSE FAdd(FAdd(tpg_distance_scores(ds, i, an), players_beaten_scores(ds, i)),
              FillNa0(bonus(ds, i)))

\* tpg_score(distances, allow_negative=an): the Series of scores
tpg_score(ds, an) ==
    LET raw == Computed([i \in Indices(ds) |-> tpg_raw(ds, i, an)])
        group(i) == {j \in Indices(ds) : RankMin(ds, j) = RankMin(ds, i)}
    IN  Computed([i \in Indices(ds) |-> Round2(GroupMean(raw, group(i)))])

\* the distance component of custom_tpg_score: world_distance - distances
custom_distance_scores(ds, i, wd, an) ==
    LET raw == FSub(Num(wd, 1), Km(ds[i]))
    IN  IF an THEN raw ELSE Clip0(raw)

\* is the flat 5K score written over submission i
custom_fivek(ds, i, fs, ft) == Truthy(fs) /\ ds[i] <= ft

\* custom_tpg_score(distances, world_distance, fivek_score, fivek_threshold,
\* allow_negative=an): the Series of scores
custom_tpg_score(ds, wd, fs, ft, an) ==
    Computed([i \in Indices(ds) |->
        Round2(IF custom_fivek(ds, i, fs, ft) THEN fs
               ELSE FDiv(FAdd(custom_distance_scores(ds, i, wd, an),
                              players_beaten_scores(ds, i)), Num(2, 1)))])

----------------------------------------------------------------------------
(* Score submissions.py *)

\* gdf['score'].rank() in the default ascending order
ScoreRankAscending(sc, i) ==
    IF IsNaN(sc[i]) THEN NaN
    ELSE Num(1 + Cardinality({j \in Indices(sc) : FLt(sc[j], sc[i])})
               + Cardinality({j \in Indices(sc) : FLe(sc[j], sc[i])}), 2)

\* gdf['score'].rank(ascending=False): the average of the positions a score
\* takes in descending order; nan for a missing score
ScoreRankAverage(sc, i) ==
    IF IsNaN(sc[i]) THEN NaN
    ELSE Num(1 + Cardinality({j \in Indices(sc) : FLt(sc[i], sc[j])})
               + Cardinality({j \in Indices(sc) : FLe(sc[i], sc[j])}), 2)

\* .astype(int) of a finite non-negative float truncates
AsInt(x) == x.n \div x.d

\* the orders of the rows idx by descending score: any row of the highest
\* score comes first
RECURSIVE SortedFrom(_, _)
SortedFrom(sc, idx) ==
    IF idx = {} THEN {<<>>}
    ELSE LET top == {i \in idx : \A j \in idx : ~FLt(sc[i], sc[j])}
         IN  UNION {{<<i>> \o rest : rest \in SortedFrom(sc, idx \ {i})} : i \in top}

\* the orders sort_values('score', ascending=False) may leave the rows in:
\* descending scores, rows of equal score in either order (the default
\* sort kind is not stable)
SortOrders(sc) == SortedFrom(sc, Indices(sc))

\* does calc_scores raise: astype(int) refuses a nan rank
calc_scores_raises(ds, wd, ft, an) ==
    \E i \in Indices(ds) : IsNaN(custom_tpg_score(ds, wd, Num(7500, 1), ft, an)[i])

\* calc_scores ranking each row by the position it comes out at
calc_scores_by_position(ds, wd, ft, an, p) ==
    LET sc == custom_tpg_score(ds, wd, Num(7500, 1), ft, an)
    IN  Computed([a \in Indices(ds) |->
            [name |-> p[a], distance |-> ds[p[a]], score |-> sc[p[a]], rank |-> a]])

\* the table calc_scores returns when the rows come out in order p;
\* row names are the positions in the input table
calc_scores(ds, wd, ft, an, p) ==
    LET sc == custom_tpg_score(ds, wd, Num(7500, 1), ft, an)
    IN  Computed([a \in Indices(ds) |->
            [name |-> p[a], distance |-> ds[p[a]], score |-> sc[p[a]],
             rank |-> AsInt(ScoreRankAverage(sc, p[a]))]])

----------------------------------------------------------------------------
(* The scoring functions applied to one round *)

Series == UNION {[1..n -> DistValues] : n \in 0..MaxN}
FivekScores == {None, Num(0, 1), Num(7500, 1)}
FivekThresholds == {1, 2}

InitSeason ==
    /\ rounds = <<>>
    /\ version = "checked"
    /\ pos = 1
    /\ yielded = <<>>
    /\ round_names = <<>>

\* the columns of the table parse_csv returns, once 'name' is its index
CsvColumns == {"geometry"}
\* the columns calc_scores writes into the table it is handed
ScoreColumns == {"bearing", "distance", "geod_distance", "score", "rank"}

\* the three defaultdicts of score_kml are empty, nothing is printed yet
InitBoards ==
    /\ points_leaderboard = <<>>
    /\ distance_leaderboard = <<>>
    /\ medals = <<>>
    /\ points_table = <<>>
    /\ distance_table = <<>>
    /\ medals_table = <<>>

\* no closest point is looked for
InitNoClosest ==
    /\ points = <<>>
    /\ target = 0
    /\ closest = <<>>

\* no theoretical-best replay is run
InitNoBest ==
    /\ pics_per_user = <<>>
    /\ tpg_rounds = <<>>
    /\ in_process = TRUE
    /\ shared_pics = <<>>
    /\ new_rows = <<>>
    /\ best_rows = <<>>

\* no rounds are compared
InitNoCompare ==
    /\ old_round = <<>>
    /\ new_round = <<>>
    /\ name = ""
    /\ printed = <<>>

\* --ongoing-round is not given, the script has not run before
InitNoOngoing ==
    /\ ignore_ongoing = FALSE
    /\ season = <<>>

\* nothing but scoring is going on; the sort of the build is stable
InitNoMain ==
    /\ main_rounds = <<>>
    /\ last_round_num = 0
    /\ options = <<>>
    /\ ongoing_round = FALSE
    /\ scored_rounds = <<>>
    /\ leaderboard_rounds = <<>>

InitNoPointSets ==
    /\ subs_per_user = <<>>
    /\ player_names = <<>>
    /\ threshold = <<>>
    /\ points_path = FALSE
    /\ additional_folders = <<>>
    /\ additional_players = <<>>
    /\ point_sets = <<>>
    /\ all_pics = <<>>

InitNoLatest ==
    /\ path = <<>>
    /\ parent_files = {}
    /\ latest_path = <<>>

InitNoFetch ==
    /\ max_round_num = <<>>
    /\ cur_round_num = 1
    /\ all_submissions = <<>>
    /\ requests = <<>>

InitNoExtra ==
    /\ tie_order = "first"
    /\ InitNoClosest
    /\ InitNoBest
    /\ InitNoCompare
    /\ InitNoOngoing
    /\ InitNoMain
    /\ InitNoPointSets
    /\ InitNoLatest
    /\ InitNoFetch

\* no simulation is asked for
InitNoSim ==
    /\ existing_rounds = <<>>
    /\ targets = <<>>
    /\ num_random_rounds = 0
    /\ single_point = <<>>
    /\ sim_rounds = <<>>
    /\ sim_order = <<>>

\* a round's distances are given; the arguments hold the defaults of
\* custom_tpg_score until a call supplies them
Init ==
    /\ distances \in Series
    /\ world_distance = 20000
    /\ fivek_score = Num(7500, 1)
    /\ fivek_threshold = 1
    /\ allow_negative = FALSE
    /\ fn = ""
    /\ scores = <<>>
    /\ gdf = <<>>
    /\ place = <<>>
    /\ raised = ""
    /\ columns = CsvColumns
    /\ InitSeason
    /\ InitBoards
    /\ InitNoExtra
    /\ InitNoSim

\* scores = tpg_score(distances, allow_negative=an)
TpgScore ==
    /\ fn = ""
    /\ \E an \in BOOLEAN :
        /\ allow_negative' = an
        /\ scores' = tpg_score(distances, an)
    /\ fn' = "tpg_score"
    /\ UNCHANGED <<distances, world_distance, fivek_score, fivek_threshold,
                   gdf, place, raised, seasonVars, columns, restVars>>

\* scores = custom_tpg_score(distances, wd, fs, ft, allow_negative=an)
CustomTpgScore ==
    /\ fn = ""
    /\ \E wd \in WorldDistances, fs \in FivekScores, ft \in FivekThresholds, an \in BOOLEAN :
        /\ world_distance' = wd
        /\ fivek_score' = fs
        /\ fivek_threshold' = ft
        /\ allow_negative' = an
        /\ scores' = custom_tpg_score(distances, wd, fs, ft, an)
    /\ fn' = "custom_tpg_score"
    /\ UNCHANGED <<distances, gdf, place, raised, seasonVars, columns, restVars>>

\* gdf = calc_scores(target, gdf, wd, ft, allow_negative=an); the scores are
\* those of custom_tpg_score with its default fivek_score
CalcScores ==
    /\ fn = ""
    /\ \E wd \in WorldDistances, ft \in FivekThresholds, an \in BOOLEAN :
        LET sc == custom_tpg_score(distances, wd, Num(7500, 1), ft, an)
        IN  /\ world_distance' = wd
            /\ fivek_threshold' = ft
            /\ allow_negative' = an
            /\ IF calc_scores_raises(distances, wd, ft, an)
               THEN /\ raised' = "IntCastingNaNError"
                    /\ columns' = columns \cup (ScoreColumns \ {"rank"})
                    /\ UNCHANGED <<scores, gdf>>
               ELSE /\ raised' = ""
                    /\ scores' = sc
                    /\ columns' = columns \cup ScoreColumns
                    /\ \E p \in SortOrders(sc) :
                           gdf' = calc_scores(distances, wd, ft, an, p)
    /\ fn' = "calc_scores"
    /\ UNCHANGED <<distances, fivek_score, place, seasonVars, restVars>>

\* one round group of the theoretical-best replay: tpg_score of the group's
\* distances, and place = distance.rank(method='max', ascending=True)
TheoreticalBest ==
    /\ fn = ""
    /\ fn' = "theoretical_best"
    /\ scores' = tpg_score(distances, FALSE)
    /\ place' = [i \in Indices(distances) |-> RankMax(distances, i)]
    /\ UNCHANGED <<distances, world_distance, fivek_score, fivek_threshold,
                   allow_negative, gdf, raised, seasonVars, columns, restVars>>

Next == TpgScore \/ CustomTpgScore \/ CalcScores \/ TheoreticalBest

Spec == Init /\ [][Next]_vars

----------------------------------------------------------------------------
(* _iter_scored_rounds, as score_kml drives it.  A round is the sequence of *)
(* its submissions; a submission is [name, distance], the distance being   *)
(* the one the geodesy routines return for its point.                      *)

MaxSubs == 2

Submissions == {[name |-> n, distance |-> PlayerDistance[n]] : n \in Players}
Rounds == UNION {[1..n -> Submissions] : n \in 0..MaxSubs}
RoundSeqs == UNION {[1..n -> Rounds] : n \in 0..MaxRounds}

\* the names that occur more than once
find_duplicates(names) ==
    {names[i] : i \in {i \in Indices(names) : \E j \in Indices(names) : j # i /\ names[j] = names[i]}}

\* the members of a set of integers in ascending order
RECURSIVE Ascending(_)
Ascending(S) ==
    IF S = {} THEN <<>>
    ELSE LET least == CHOOSE m \in S : \A x \in S : m <= x
         IN  <<least>> \o Ascending(S \ {least})

\* data = {submission.name: {...} for submission in r.submissions}: one entry
\* per name, in order of first occurrence, holding the last submission of that name
SubmissionDict(subs) ==
    LET first == Ascending({i \in Indices(subs) : \A j \in 1..(i - 1) : subs[j].name # subs[i].name})
        last(i) == CHOOSE j \in Indices(subs) :
                       /\ subs[j].name = subs[i].name
                       /\ \A h \in Indices(subs) : subs[h].name = subs[i].name => h <= j
    IN  Computed([a \in Indices(first) |-> subs[last(first[a])]])

\* the table of a round: calc_scores over the rows of data, indexed by player name
RoundTable(data, p) ==
    LET ds == Computed([a \in Indices(data) |-> data[a].distance])
        t == calc_scores(ds, 5000, 1, FALSE, p)
    IN  Computed([a \in Indices(data) |-> [t[a] EXCEPT !.name = data[t[a].name].name]])

RoundScores(data) ==
    custom_tpg_score([a \in Indices(data) |-> data[a].distance], 5000, Num(7500, 1), 1, FALSE)

RoundRaises(data) ==
    calc_scores_raises([a \in Indices(data) |-> data[a].distance], 5000, 1, FALSE)

\* the names a round may carry
RoundLabels == {"r1", "r2"}

\* dct[key] = value on a dict held as a function of its keys
DictSet(dct, key, value) ==
    [x \in (DOMAIN dct) \cup {key} |-> IF x = key THEN value ELSE dct[x]]

\* the index of a round table, and the row a name labels
TableNames(table) == {table[a].name : a \in Indices(table)}
RowOf(table, pn) == CHOOSE a \in Indices(table) : table[a].name = pn

\* points_leaderboard[r.name][name] = row['score'] for every row of the table
points_written(board, rn, table) ==
    LET old == IF rn \in DOMAIN board THEN board[rn] ELSE <<>>
    IN  DictSet(board, rn,
                [pn \in (DOMAIN old) \cup TableNames(table) |->
                    IF pn \in TableNames(table) THEN table[RowOf(table, pn)].score
                    ELSE old[pn]])

\* distance_leaderboard[r.name][name] = row['distance'] for every row (km)
distance_written(board, rn, table) ==
    LET old == IF rn \in DOMAIN board THEN board[rn] ELSE <<>>
    IN  DictSet(board, rn,
                [pn \in (DOMAIN old) \cup TableNames(table) |->
                    IF pn \in TableNames(table) THEN Km(table[RowOf(table, pn)].distance)
                    ELSE old[pn]])

\* class Medal(IntEnum)
Gold == 3
Silver == 2
Bronze == 1

\* if row['rank'] <= 3: medals[name].append(Medal(4 - row['rank'])) for every row
medals_appended(m, table) ==
    LET podium == {pn \in TableNames(table) : table[RowOf(table, pn)].rank <= 3}
    IN  [pn \in (DOMAIN m) \cup podium |->
            (IF pn \in DOMAIN m THEN m[pn] ELSE <<>>)
            \o (IF pn \in podium THEN <<4 - table[RowOf(table, pn)].rank>> ELSE <<>>)]

\* the one-to-one enumerations of a finite set
Orderings(S) ==
    {o \in [1..Cardinality(S) -> S] : \A a, b \in 1..Cardinality(S) : a # b => o[a] # o[b]}

\* pandas.DataFrame(data): the cell of player pn in the column of round c is
\* nan where the round holds no entry for the player
Cell(data, pn, c) == IF pn \in DOMAIN data[c] THEN data[c][pn] ELSE NaN

\* df.sum(axis='columns') over the columns cols: missing cells are skipped
RECURSIVE RowSum(_, _, _)
RowSum(data, pn, cols) ==
    IF cols = {} THEN Num(0, 1)
    ELSE LET c == CHOOSE c \in cols : TRUE
         IN  FAdd(FillNa0(Cell(data, pn, c)), RowSum(data, pn, cols \ {c}))

\* _make_leaderboard with dropna(how='all'): only a row without any entry is dropped
make_leaderboard_how_all(data, ascending, dropna) ==
    LET cols == DOMAIN data
        index == UNION {DOMAIN data[c] : c \in cols}
        kept == IF dropna
                THEN {pn \in index : \E c \in cols : ~IsNaN(Cell(data, pn, c))}
                ELSE index
        num_rounds == Cardinality(cols)
        row(pn) == [Player |-> pn,
                    Total |-> RowSum(data, pn, cols),
                    Average |-> FDiv(RowSum(data, pn, cols), Num(num_rounds, 1))]
        sorted(o) == \A a \in 1..(Cardinality(kept) - 1) :
                        IF ascending
                        THEN ~FLt(row(o[a + 1]).Total, row(o[a]).Total)
                        ELSE ~FLt(row(o[a]).Total, row(o[a + 1]).Total)
    IN  {[a \in 1..Cardinality(kept) |-> row(o[a])] : o \in {o \in Orderings(kept) : sorted(o)}}

\* _make_leaderboard(data, name, ascending=, dropna=): the tables it may return,
\* one row per player, sorted by Total (rows of equal Total in either order)
make_leaderboard(data, ascending, dropna) ==
    LET cols == DOMAIN data
        index == UNION {DOMAIN data[c] : c \in cols}
        kept == IF dropna
                THEN {pn \in index : \A c \in cols : ~IsNaN(Cell(data, pn, c))}
                ELSE index
        num_rounds == Cardinality(cols)
        row(pn) == [Player |-> pn,
                    Total |-> RowSum(data, pn, cols),
                    Average |-> FDiv(RowSum(data, pn, cols), Num(num_rounds, 1))]
        sorted(o) == \A a \in 1..(Cardinality(kept) - 1) :
                        IF ascending
                        THEN ~FLt(row(o[a + 1]).Total, row(o[a]).Total)
                        ELSE ~FLt(row(o[a]).Total, row(o[a + 1]).Total)
    IN  {[a \in 1..Cardinality(kept) |-> row(o[a])] : o \in {o \in Orderings(kept) : sorted(o)}}

\* Counter(player_medals)[medal]
MedalCount(lst, medal) == Cardinality({i \in Indices(lst) : lst[i] = medal})

\* sum(player_medals)
RECURSIVE MedalSum(_)
MedalSum(lst) == IF lst = <<>> THEN 0 ELSE Head(lst) + MedalSum(Tail(lst))

\* count_medals scoring a player by the number of medals held
count_medals_by_number(m) ==
    LET index == {pn \in DOMAIN m : Len(m[pn]) > 0}
        row(pn) == [Player |-> pn,
                    Gold |-> MedalCount(m[pn], Gold),
                    Silver |-> MedalCount(m[pn], Silver),
                    Bronze |-> MedalCount(m[pn], Bronze),
                    MedalScore |-> Len(m[pn])]
        sorted(o) == \A a \in 1..(Cardinality(index) - 1) :
                        row(o[a]).MedalScore >= row(o[a + 1]).MedalScore
    IN  {[a \in 1..Cardinality(index) |-> row(o[a])] : o \in {o \in Orderings(index) : sorted(o)}}

\* count_medals(medals): the tables it may return, one row per player with a
\* medal, sorted by Medal Score descending (rows of equal score in either order)
count_medals(m) ==
    LET index == {pn \in DOMAIN m : Len(m[pn]) > 0}
        row(pn) == [Player |-> pn,
                    Gold |-> MedalCount(m[pn], Gold),
                    Silver |-> MedalCount(m[pn], Silver),
                    Bronze |-> MedalCount(m[pn], Bronze),
                    MedalScore |-> MedalSum(m[pn])]
        sorted(o) == \A a \in 1..(Cardinality(index) - 1) :
                        row(o[a]).MedalScore >= row(o[a + 1]).MedalScore
    IN  {[a \in 1..Cardinality(index) |-> row(o[a])] : o \in {o \in Orderings(index) : sorted(o)}}

\* the columns of the table _iter_scored_rounds builds for a round
KmlColumns == {"desc", "style", "point"}

InitKml ==
    /\ rounds \in RoundSeqs
    /\ round_names = [i \in Indices(rounds) |-> "r1"]
    /\ columns = KmlColumns
    /\ InitBoards
    /\ InitNoExtra
    /\ InitNoSim
    /\ version \in {"todo", "checked"}
    /\ pos = 1
    /\ yielded = <<>>
    /\ distances = <<>>
    /\ world_distance = 5000
    /\ fivek_score = Num(7500, 1)
    /\ fivek_threshold = 1
    /\ allow_negative = FALSE
    /\ fn = "score_kml"
    /\ scores = <<>>
    /\ gdf = <<>>
    /\ place = <<>>
    /\ raised = ""

\* how many rounds score_kml hands to _iter_scored_rounds: all of them, or
\* rounds[:-1] if ignore_ongoing
NumIterated == IF ignore_ongoing /\ rounds # <<>> THEN Len(rounds) - 1 ELSE Len(rounds)

Running == fn = "score_kml" /\ raised = "" /\ pos <= NumIterated

\* the table of round pos is built from data and yielded, unless calc_scores
\* raises; the body of score_kml's loop enters its rows in the leaderboards
YieldRound(data) ==
    IF RoundRaises(data)
    THEN /\ raised' = "IntCastingNaNError"
         /\ UNCHANGED <<pos, yielded, boardVars>>
    ELSE /\ \E p \in SortOrders(RoundScores(data)) :
                LET table == RoundTable(data, p)
                IN  /\ yielded' = Append(yielded, [round |-> pos, gdf |-> table])
                    /\ points_leaderboard' =
                           points_written(points_leaderboard, round_names[pos], table)
                    /\ distance_leaderboard' =
                           distance_written(distance_leaderboard, round_names[pos], table)
                    /\ medals' = medals_appended(medals, table)
         /\ pos' = pos + 1
         /\ UNCHANGED raised

\* a round without submissions refused
IterRefuseEmpty ==
    /\ Running /\ version = "checked"
    /\ rounds[pos] = <<>>
    /\ raised' = "ValueError"
    /\ UNCHANGED <<distances, world_distance, fivek_score, fivek_threshold, allow_negative,
                   fn, scores, gdf, place, seasonVars, columns, restVars>>

\* if not r.submissions: continue
IterSkipEmpty ==
    /\ Running /\ version = "checked"
    /\ rounds[pos] = <<>>
    /\ pos' = pos + 1
    /\ UNCHANGED <<scoreVars, rounds, version, yielded, columns, restVars>>

\* if dupes: raise RuntimeError
IterRaiseDuplicates ==
    /\ Running /\ version = "checked"
    /\ rounds[pos] # <<>>
    /\ find_duplicates([i \in Indices(rounds[pos]) |-> rounds[pos][i].name]) # {}
    /\ raised' = "RuntimeError"
    /\ UNCHANGED <<distances, world_distance, fivek_score, fivek_threshold, allow_negative,
                   fn, scores, gdf, place, seasonVars, columns, restVars>>

\* yield (r, calc_scores(r.target, gdf, ...))
IterYield ==
    /\ Running /\ version = "checked"
    /\ rounds[pos] # <<>>
    /\ find_duplicates([i \in Indices(rounds[pos]) |-> rounds[pos][i].name]) = {}
    /\ YieldRound(SubmissionDict(rounds[pos]))
    /\ UNCHANGED <<distances, world_distance, fivek_score, fivek_threshold, allow_negative,
                   fn, scores, gdf, place, rounds, version,
                   round_names, columns, tableVars, simVars, extraVars>>

\* the revision without the duplicate check: GeoDataFrame(df, geometry='point')
\* has no 'point' column to use when the round has no submissions
IterEmptyTodo ==
    /\ Running /\ version = "todo"
    /\ rounds[pos] = <<>>
    /\ raised' = "ValueError"
    /\ UNCHANGED <<distances, world_distance, fivek_score, fivek_threshold, allow_negative,
                   fn, scores, gdf, place, seasonVars, columns, restVars>>

\* the revision without the duplicate check: whatever data holds is scored
IterYieldTodo ==
    /\ Running /\ version = "todo"
    /\ rounds[pos] # <<>>
    /\ YieldRound(SubmissionDict(rounds[pos]))
    /\ UNCHANGED <<distances, world_distance, fivek_score, fivek_threshold, allow_negative,
                   fn, scores, gdf, place, rounds, version,
                   round_names, columns, tableVars, simVars, extraVars>>

\* current_names = [s.name for s in rounds[-1].submissions] of the later
\* revision: there is no last round when the tracker holds none
ScoreKmlNoRounds ==
    /\ fn = "score_kml" /\ raised = "" /\ version = "checked"
    /\ rounds = <<>>
    /\ raised' = "IndexError"
    /\ UNCHANGED <<distances, world_distance, fivek_score, fivek_threshold, allow_negative,
                   fn, scores, gdf, place, seasonVars, columns, restVars>>

\* the leaderboards printed once every round is scored (output_season in the
\* later revision, the tail of score_kml in the earlier one); the later
\* revision then fails on stats.set_index('Round') when no round was scored
OutputSeason ==
    /\ fn = "score_kml" /\ raised = "" /\ pos > NumIterated
    /\ version = "checked" => rounds # <<>>
    /\ fn' = "output_season"
    /\ points_table' \in make_leaderboard(points_leaderboard, FALSE, FALSE)
    /\ distance_table' \in make_leaderboard(distance_leaderboard, TRUE, TRUE)
    /\ medals_table' \in count_medals(medals)
    /\ raised' = IF version = "checked" /\ yielded = <<>> THEN "KeyError" ELSE ""
    /\ UNCHANGED <<distances, world_distance, fivek_score, fivek_threshold, allow_negative,
                   scores, gdf, place, seasonVars, round_names, columns, boardVars, simVars, extraVars>>

NextKml ==
    \/ IterSkipEmpty \/ IterRaiseDuplicates \/ IterYield \/ IterEmptyTodo \/ IterYieldTodo
    \/ ScoreKmlNoRounds \/ OutputSeason

SpecKml == InitKml /\ [][NextKml]_vars

----------------------------------------------------------------------------
(* A season: score_kml over rounds that may share a name, none of them     *)
(* holding a player twice, and the leaderboards made of it.                *)

SeasonRounds == {r \in Rounds : find_duplicates([i \in Indices(r) |-> r[i].name]) = {}}
SeasonRoundSeqs == UNION {[1..n -> SeasonRounds] : n \in 0..MaxRounds}

InitSeasonKml ==
    /\ rounds \in SeasonRoundSeqs
    /\ round_names \in [Indices(rounds) -> RoundLabels]
    /\ version \in {"todo", "checked"}
    /\ pos = 1
    /\ yielded = <<>>
    /\ distances = <<>>
    /\ world_distance = 5000
    /\ fivek_score = Num(7500, 1)
    /\ fivek_threshold = 1
    /\ allow_negative = FALSE
    /\ fn = "score_kml"
    /\ scores = <<>>
    /\ gdf = <<>>
    /\ place = <<>>
    /\ raised = ""
    /\ columns = KmlColumns
    /\ InitBoards
    /\ InitNoExtra
    /\ InitNoSim

NextSeason ==
    \/ IterSkipEmpty \/ IterYield \/ IterEmptyTodo \/ IterYieldTodo
    \/ ScoreKmlNoRounds \/ OutputSeason

SpecSeason == InitSeasonKml /\ [][NextSeason]_vars

----------------------------------------------------------------------------
(* Properties *)

ScoresReturned == fn \in {"tpg_score", "custom_tpg_score", "theoretical_best"}
TableReturned == fn = "calc_scores" /\ raised = ""

\* C1: tie symmetry.  Two submissions of a round whose distances are exactly
\* equal have equal scores after tpg_score and custom_tpg_score, and equal
\* score and equal rank in the table calc_scores returns.
TieSymmetry ==
    /\ ScoresReturned =>
          \A i, j \in Indices(distances) :
              i # j /\ distances[i] = distances[j] => FEq(scores[i], scores[j])
    /\ TableReturned =>
          \A a, b \in Indices(gdf) :
              a # b /\ gdf[a].distance = gdf[b].distance =>
                  FEq(gdf[a].score, gdf[b].score) /\ gdf[a].rank = gdf[b].rank

\* a table with two tied submissions and a third one elsewhere
TieSymmetryWitness ==
    /\ TableReturned
    /\ \E a, b, c \in Indices(gdf) :
          /\ a # b /\ gdf[a].distance = gdf[b].distance
          /\ gdf[c].distance > gdf[a].distance
          /\ ~custom_fivek(distances, gdf[a].name, Num(7500, 1), fivek_threshold)

\* C2: competition ranking.  The rank attached to a submission is 1 + the
\* number of submissions that are strictly better (a higher score in the
\* table of calc_scores, a smaller distance in the theoretical-best replay),
\* so a tie group of any size takes the minimum rank of the group.
CompetitionRanking ==
    /\ TableReturned =>
          \A a \in Indices(gdf) :
              gdf[a].rank = 1 + Cardinality({b \in Indices(gdf) : FLt(gdf[a].score, gdf[b].score)})
    /\ fn = "theoretical_best" =>
          \A i \in Indices(distances) :
              place[i] = 1 + Cardinality({j \in Indices(distances) : distances[j] < distances[i]})

\* the flat-score overrides: the antipode 5K of tpg_score (its 5K is a bonus
\* that takes the place of the rank bonus), the flat 5K score of custom_tpg_score
TpgAntipode(i) == distances[i] >= 199950
TpgFivek(i) == distances[i] <= 1
CustomOverride(i, fs) == custom_fivek(distances, i, fs, fivek_threshold)

\* C3: rank/score monotonicity.  For submissions A, B of a scored round,
\* neither with a flat-score override, distance(A) < distance(B) implies
\* score(A) >= score(B) and rank(A) <= rank(B), under tpg_score (with the
\* place of the replay as rank) and under custom_tpg_score with the ranking
\* of calc_scores.
Monotonicity ==
    /\ fn \in {"tpg_score", "theoretical_best"} =>
          \A i, j \in Indices(distances) :
              ~TpgAntipode(i) /\ ~TpgAntipode(j) /\ distances[i] < distances[j]
                  => /\ FLe(scores[j], scores[i])
                     /\ fn = "theoretical_best" => place[i] <= place[j]
    /\ fn = "custom_tpg_score" =>
          \A i, j \in Indices(distances) :
              /\ ~CustomOverride(i, fivek_score) /\ ~CustomOverride(j, fivek_score)
              /\ distances[i] < distances[j]
              => FLe(scores[j], scores[i])
    /\ TableReturned =>
          \A a, b \in Indices(gdf) :
              /\ ~CustomOverride(gdf[a].name, Num(7500, 1))
              /\ ~CustomOverride(gdf[b].name, Num(7500, 1))
              /\ gdf[a].distance < gdf[b].distance
              => FLe(gdf[b].score, gdf[a].score) /\ gdf[a].rank <= gdf[b].rank

\* a table in which two submissions without override lie at different
\* distances, the farther one beyond the world distance
MonotonicityWitness ==
    /\ TableReturned
    /\ \E a, b \in Indices(gdf) :
          /\ ~CustomOverride(gdf[a].name, Num(7500, 1))
          /\ gdf[a].distance < gdf[b].distance
          /\ gdf[b].distance > 10 * world_distance
          /\ gdf[a].rank < gdf[b].rank

\* the score of a lone submission whose proximity component is the full 5000
SoloExpected ==
    IF fn = "tpg_score"
    THEN IF TpgAntipode(1) THEN Num(5000, 1)
         ELSE Round2(FAdd(FAdd(tpg_distance_scores(distances, 1, allow_negative), Num(5000, 1)),
                          FillNa0(bonus(distances, 1))))
    ELSE IF CustomOverride(1, fivek_score) THEN Round2(fivek_score)
         ELSE Round2(FDiv(FAdd(custom_distance_scores(distances, 1, world_distance, allow_negative),
                               Num(5000, 1)), Num(2, 1)))

\* C4: solo round.  For a round of exactly one submission tpg_score and
\* custom_tpg_score raise nothing and give the lone submission the full
\* proximity component of 5000, so its score is an ordinary finite number.
SoloRound ==
    fn \in {"tpg_score", "custom_tpg_score"} /\ Len(distances) = 1 =>
        /\ raised = ""
        /\ IsFinite(scores[1])
        /\ FEq(scores[1], SoloExpected)

\* C5: score bounds.  With negative clipping, for every round size N >= 1
\* each score that no flat override (5K, antipode 5K) replaced is a finite
\* number in [0, max]: max = (world_distance + 5000) / 2 for
\* custom_tpg_score, 0.25 * 20000 + 5000 + 3000 for tpg_score.
ScoreBounds ==
    /\ fn = "tpg_score" /\ ~allow_negative =>
          \A i \in Indices(distances) :
              ~TpgAntipode(i) /\ ~TpgFivek(i) =>
                  /\ IsFinite(scores[i])
                  /\ FLe(Num(0, 1), scores[i])
                  /\ FLe(scores[i], Num(13000, 1))
    /\ fn = "custom_tpg_score" /\ ~allow_negative =>
          \A i \in Indices(distances) :
              ~CustomOverride(i, fivek_score) =>
                  /\ IsFinite(scores[i])
                  /\ FLe(Num(0, 1), scores[i])
                  /\ FLe(scores[i], Num(world_distance + 5000, 2))

\* 5000 * (number of submissions strictly farther than i) / (N - 1)
Proximity(i) ==
    FMul(Num(5000, 1),
         FDiv(Num(Cardinality({j \in Indices(distances) : distances[j] > distances[i]}), 1),
              Num(Len(distances) - 1, 1)))

\* C6: proximity component.  In a round of N >= 2 submissions the score of
\* a submission without override is made with the proximity component
\* 5000 * players_beaten / (N - 1), players_beaten being the number of
\* submissions at a strictly greater distance: the unique closest submission
\* has 5000, the farthest 0, and the members of a tie group the same.
ProximityComponent ==
    /\ fn = "custom_tpg_score" /\ Len(distances) >= 2 =>
          \A i \in Indices(distances) :
              ~CustomOverride(i, fivek_score) =>
                  FEq(scores[i],
                      Round2(FDiv(FAdd(custom_distance_scores(distances, i, world_distance,
                                                              allow_negative),
                                       Proximity(i)), Num(2, 1))))
    /\ fn = "tpg_score" /\ Len(distances) >= 2 =>
          \A i \in Indices(distances) :
              ~TpgAntipode(i) =>
                  FEq(scores[i],
                      Round2(FAdd(FAdd(tpg_distance_scores(distances, i, allow_negative),
                                       Proximity(i)),
                                  FillNa0(bonus(distances, i)))))

\* custom_tpg_score on a unique closest submission, a tie group behind it
\* and none of them a 5K
ProximityComponentWitness ==
    /\ fn = "custom_tpg_score" /\ Len(distances) >= 3
    /\ \E i, j, h \in Indices(distances) :
          /\ j # h /\ distances[j] = distances[h]
          /\ distances[i] < distances[j]
          /\ ~CustomOverride(i, fivek_score)
          /\ FEq(Proximity(i), Num(5000, 1))
          /\ FEq(Proximity(j), Num(0, 1))

\* C7: flat 5K override, inclusive boundary.  Whatever flat score is
\* configured, every submission at a distance less than or equal to the 5K
\* threshold ends with exactly that score.
FlatFivek ==
    /\ fn = "custom_tpg_score" /\ fivek_score # None =>
          \A i \in Indices(distances) :
              distances[i] <= fivek_threshold => FEq(scores[i], fivek_score)
    /\ TableReturned =>
          \A a \in Indices(gdf) :
              gdf[a].distance <= fivek_threshold => FEq(gdf[a].score, Num(7500, 1))

\* the round of the scenario: A at the target, B farther away but short of
\* the antipode, scored by tpg_score
MainGameScenario ==
    /\ fn \in {"tpg_score", "theoretical_best"}
    /\ Len(distances) = 2
    /\ distances[1] = 0
    /\ distances[2] > 1
    /\ ~TpgAntipode(2)

\* C8 as stated: A scores proximity 5000 plus the full distance component
\* 20000 - distance plus the rank-1 bonus 3000, B scores proximity 0 plus
\* its smaller distance component.
MainGameUnweighted ==
    MainGameScenario =>
        /\ FEq(scores[1], Round2(FAdd(FAdd(Num(5000, 1), FSub(Num(20000, 1), Km(distances[1]))),
                                      Num(3000, 1))))
        /\ FEq(scores[2], Round2(FSub(Num(20000, 1), Km(distances[2]))))

\* C8: in the two-submission round of the scenario A has place 1 and scores
\* proximity 5000 plus the distance component 0.25 * (20000 - distance)
\* (5000 at the target) plus the 5K bonus 5000 that a distance within
\* 0.1 km earns in place of the rank-1 bonus; B scores proximity 0 plus its
\* smaller distance component 0.25 * (20000 - distance) plus the rank-2
\* bonus 2000.
MainGameWeighted ==
    MainGameScenario =>
        /\ fn = "theoretical_best" => place[1] = 1
        /\ FEq(scores[1], Num(5000 + 5000 + 5000, 1))
        /\ FEq(scores[2], Round2(FAdd(FMul(Num(1, 4), FSub(Num(20000, 1), Km(distances[2]))),
                                      Num(2000, 1))))
        /\ FLt(scores[2], scores[1])

\* the scenario with B 3000 km away
MainGameWitness ==
    /\ MainGameScenario
    /\ fn = "theoretical_best"
    /\ distances[2] = 30000
    /\ scores[2] = [k |-> "num", n |-> 625000, d |-> 100]

RoundNames(r) == [i \in Indices(rounds[r]) |-> rounds[r][i].name]
HasDuplicate(names) == \E i, j \in Indices(names) : i # j /\ names[i] = names[j]

\* C9: duplicate players are rejected.  A round in which a player name
\* occurs twice is never passed: no table is yielded for it and the
\* iteration does not go on behind it.
DuplicatesRejected ==
    /\ \A y \in Indices(yielded) : ~HasDuplicate(RoundNames(yielded[y].round))
    /\ \A r \in 1..(pos - 1) : ~HasDuplicate(RoundNames(r))

\* C10 as stated: the iteration never goes on behind a round without
\* submissions.
EmptyRoundRaises == \A r \in 1..(pos - 1) : rounds[r] # <<>>

\* C10: the revision of _iter_scored_rounds that checks for duplicates skips
\* a round without submissions: it yields nothing for it, raises nothing
\* and goes on with the next round.
EmptyRoundSkipped ==
    [][(version = "checked" /\ Running /\ rounds[pos] = <<>>)
          => (pos' = pos + 1 /\ raised' = "" /\ yielded' = yielded)]_vars

\* a round without submissions lies behind, and a later round was yielded
EmptyRoundSkippedWitness ==
    /\ version = "checked" /\ raised = ""
    /\ \E r \in 1..(pos - 1), y \in Indices(yielded) :
          rounds[r] = <<>> /\ yielded[y].round > r

----------------------------------------------------------------------------
(* One round of many players: score_kml over a single round whose players  *)
(* are all different, up to the first scored table and its medals.         *)

MaxField == 5

\* where a picture may lie from the target (hm): within the 5K threshold,
\* 2000 km or 3000 km away
FieldDistValues == {1, 20000, 30000}
FieldNames == <<"ann", "bob", "cat", "dan", "eve", "fay">>
FieldRounds ==
    UNION {{[i \in 1..n |-> [name |-> FieldNames[i], distance |-> ds[i]]] :
               ds \in [1..n -> FieldDistValues]} : n \in 0..MaxField}

InitPodium ==
    /\ rounds \in {<<r>> : r \in FieldRounds}
    /\ round_names = <<"r1">>
    /\ version = "checked"
    /\ pos = 1
    /\ yielded = <<>>
    /\ distances = <<>>
    /\ world_distance = 5000
    /\ fivek_score = Num(7500, 1)
    /\ fivek_threshold = 1
    /\ allow_negative = FALSE
    /\ fn = "score_kml"
    /\ scores = <<>>
    /\ gdf = <<>>
    /\ place = <<>>
    /\ raised = ""
    /\ columns = KmlColumns
    /\ InitBoards
    /\ InitNoExtra
    /\ InitNoSim

NextPodium == IterSkipEmpty \/ IterYield

SpecPodium == InitPodium /\ [][NextPodium]_vars

----------------------------------------------------------------------------
(* The csv branch of main: one table is parsed and handed to calc_scores   *)
(* with the options the command line defaults to; ScoreAgain hands the     *)
(* same table to calc_scores once more.                                    *)

MaxTable == 3

InitCsv ==
    /\ distances \in UNION {[1..n -> FieldDistValues] : n \in 0..MaxTable}
    /\ world_distance = 5000
    /\ fivek_score = Num(7500, 1)
    /\ fivek_threshold = 1
    /\ allow_negative = FALSE
    /\ fn = "main"
    /\ scores = <<>>
    /\ gdf = <<>>
    /\ place = <<>>
    /\ raised = ""
    /\ columns = CsvColumns
    /\ InitSeason
    /\ InitBoards
    /\ InitNoExtra
    /\ InitNoSim

\* calc_scores(target, gdf, world_distance, fivek_threshold, ...) on the
\* table whose rows lie at distances: its columns are written into that
\* table, the sorted copy is what the caller holds as result
ScoreTable(result) ==
    LET sc == custom_tpg_score(distances, world_distance, Num(7500, 1),
                               fivek_threshold, allow_negative)
    IN  /\ fn' = result
        /\ IF calc_scores_raises(distances, world_distance, fivek_threshold, allow_negative)
           THEN /\ raised' = "IntCastingNaNError"
                /\ columns' = columns \cup (ScoreColumns \ {"rank"})
                /\ UNCHANGED <<scores, gdf>>
           ELSE /\ raised' = ""
                /\ scores' = sc
                /\ columns' = columns \cup ScoreColumns
                /\ \E p \in SortOrders(sc) :
                       gdf' = calc_scores(distances, world_distance, fivek_threshold,
                                          allow_negative, p)
        /\ UNCHANGED <<distances, world_distance, fivek_score, fivek_threshold,
                       allow_negative, place, seasonVars, restVars>>

\* gdf = calc_scores(target, gdf, ...) of the csv branch
ScoreCsv == fn = "main" /\ ScoreTable("calc_scores")

\* the table handed in is scored a second time
ScoreAgain == fn = "calc_scores" /\ raised = "" /\ ScoreTable("calc_scores again")

NextCsv == ScoreCsv \/ ScoreAgain

SpecCsv == InitCsv /\ [][NextCsv]_vars

----------------------------------------------------------------------------
(* count_medals applied to the medals of two players *)

MaxMedals == 2

MedalLists == UNION {[1..n -> {Gold, Silver, Bronze}] : n \in 0..MaxMedals}

InitMedals ==
    /\ medals \in [Players -> MedalLists]
    /\ points_leaderboard = <<>>
    /\ distance_leaderboard = <<>>
    /\ points_table = <<>>
    /\ distance_table = <<>>
    /\ medals_table = <<>>
    /\ distances = <<>>
    /\ world_distance = 5000
    /\ fivek_score = Num(7500, 1)
    /\ fivek_threshold = 1
    /\ allow_negative = FALSE
    /\ fn = ""
    /\ scores = <<>>
    /\ gdf = <<>>
    /\ place = <<>>
    /\ raised = ""
    /\ columns = {}
    /\ InitSeason
    /\ InitNoSim
    /\ InitNoExtra

\* medals_leaderboard = count_medals(medals)
CountMedals ==
    /\ fn = ""
    /\ fn' = "count_medals"
    /\ medals_table' \in count_medals(medals)
    /\ UNCHANGED <<distances, world_distance, fivek_score, fivek_threshold, allow_negative,
                   scores, gdf, place, raised, seasonVars, round_names, columns,
                   points_leaderboard, distance_leaderboard, medals,
                   points_table, distance_table, simVars, extraVars>>

NextMedals == CountMedals

SpecMedals == InitMedals /\ [][NextMedals]_vars

----------------------------------------------------------------------------
(* get_simulation of Simulate rounds.py: the dict of round targets.  A     *)
(* point is [x, y]; a string built by formatting is the sequence of its    *)
(* pieces, so that two keys are equal exactly when the strings are.        *)

MaxSimRounds == 2

SimPoints == {[x |-> 10, y |-> 20], [x |-> 20, y |-> 10]}
\* a geometry of the targets file that is not a shapely.Point
NotAPoint == [x |-> 0, y |-> 0, line |-> TRUE]

\* format_xy(x, y) = f'{y}, {x}', and format_point(p) = format_xy(p.x, p.y)
format_xy(x, y) == <<y, ", ", x>>
format_point(pt) == format_xy(pt.x, pt.y)

\* round_name = r.name or f'Round {r.number}'
round_name(r) == IF r.name # "" THEN <<r.name>> ELSE <<"Round ", r.number>>

ExistingRounds ==
    UNION {{[i \in 1..n |-> [name |-> nm[i], number |-> i, target |-> tg[i]]] :
               nm \in [1..n -> {"", "A", "B"}], tg \in [1..n -> SimPoints]} :
           n \in 1..MaxSimRounds}
TargetRows ==
    UNION {[1..n -> [index : {"A", "B"}, geometry : SimPoints \cup {NotAPoint}]] :
           n \in 1..MaxSimRounds}

\* the command line gives at most one of --rounds-path, --targets,
\* --random-rounds and --point
InitSim ==
    /\ \/ existing_rounds \in ExistingRounds
          /\ targets = <<>> /\ num_random_rounds = 0 /\ single_point = <<>>
       \/ targets \in TargetRows
          /\ existing_rounds = <<>> /\ num_random_rounds = 0 /\ single_point = <<>>
       \/ num_random_rounds \in 1..MaxSimRounds
          /\ existing_rounds = <<>> /\ targets = <<>> /\ single_point = <<>>
       \/ single_point \in {<<pt>> : pt \in SimPoints}
          /\ existing_rounds = <<>> /\ targets = <<>> /\ num_random_rounds = 0
       \/ /\ existing_rounds = <<>> /\ targets = <<>>
          /\ num_random_rounds = 0 /\ single_point = <<>>
    /\ sim_rounds = <<>>
    /\ sim_order = <<>>
    /\ distances = <<>>
    /\ world_distance = 5000
    /\ fivek_score = Num(7500, 1)
    /\ fivek_threshold = 1
    /\ allow_negative = FALSE
    /\ fn = ""
    /\ scores = <<>>
    /\ gdf = <<>>
    /\ place = <<>>
    /\ raised = ""
    /\ columns = {}
    /\ InitSeason
    /\ InitBoards
    /\ InitNoExtra

\* dct[key] = value on a dict held as its (key, value) pairs in insertion
\* order: a key already there keeps its place and takes the new value
ItemSet(dct, key, value) ==
    IF \E i \in Indices(dct) : dct[i].key = key
    THEN [i \in Indices(dct) |->
             IF dct[i].key = key THEN [key |-> key, value |-> value] ELSE dct[i]]
    ELSE Append(dct, [key |-> key, value |-> value])

\* the dict built from the first n of a sequence of (key, value) pairs
RECURSIVE DictOf(_, _)
DictOf(items, n) ==
    IF n = 0 THEN <<>>
    ELSE ItemSet(DictOf(items, n - 1), items[n].key, items[n].value)

\* the subsequence of the Point geometries of the targets file
RECURSIVE PointRows(_)
PointRows(rows) ==
    IF rows = <<>> THEN <<>>
    ELSE IF Head(rows).geometry \in SimPoints
         THEN <<Head(rows)>> \o PointRows(Tail(rows))
         ELSE PointRows(Tail(rows))

\* the dicts rounds that get_simulation(existing_rounds, ..., targets_path,
\* num_random_rounds, region_path=None, single_point) may build; the random
\* points are whatever the unseeded generator of random_point_in_bbox draws
get_simulation(er, tg, nr, sp) ==
    IF er # <<>>
    THEN {DictOf([i \in Indices(er) |-> [key |-> round_name(er[i]), value |-> er[i].target]],
                 Len(er))}
    ELSE IF tg # <<>>
    THEN LET pr == PointRows(tg)
         IN  {DictOf([i \in Indices(pr) |-> [key |-> <<pr[i].index>>, value |-> pr[i].geometry]],
                     Len(pr))}
    ELSE IF nr > 0
    THEN {DictOf([i \in 1..nr |-> [key |-> format_point(pts[i]), value |-> pts[i]]], nr) :
             pts \in [1..nr -> SimPoints]}
    ELSE IF sp # <<>>
    THEN {<<[key |-> format_point(sp[1]), value |-> sp[1]]>>}
    ELSE {}

\* the dict order of get_simulation: the number of every existing round
\* under its name, empty (None is passed on) in the other modes
simulation_order(er) ==
    DictOf([i \in Indices(er) |-> [key |-> round_name(er[i]), value |-> er[i].number]], Len(er))

\* one call of get_simulation on the arguments held
Simulate(result) ==
    /\ fn' = result
    /\ IF existing_rounds = <<>> /\ targets = <<>> /\ num_random_rounds = 0 /\ single_point = <<>>
       THEN /\ raised' = "RuntimeError"
            /\ UNCHANGED <<sim_rounds, sim_order>>
       ELSE /\ raised' = ""
            /\ sim_rounds' \in get_simulation(existing_rounds, targets, num_random_rounds,
                                              single_point)
            /\ sim_order' = simulation_order(existing_rounds)
    /\ UNCHANGED <<distances, world_distance, fivek_score, fivek_threshold, allow_negative,
                   scores, gdf, place, seasonVars, round_names, columns, boardVars, tableVars,
                   existing_rounds, targets, num_random_rounds, single_point, extraVars>>

GetSimulation == fn = "" /\ Simulate("get_simulation")

\* the same command line is run a second time
GetSimulationAgain == fn = "get_simulation" /\ raised = "" /\ Simulate("get_simulation again")

NextSim == GetSimulation \/ GetSimulationAgain

SpecSim == InitSim /\ [][NextSim]_vars

----------------------------------------------------------------------------
(* The season leaderboards *)

SeasonPrinted == fn = "output_season"

\* the scored rounds in which player pn has a row
RoundsPlayed(pn) == {y \in Indices(yielded) : pn \in TableNames(yielded[y].gdf)}

\* the row of player pn in the y-th scored round
PlayedRow(pn, y) == yielded[y].gdf[RowOf(yielded[y].gdf, pn)]

\* the sum of the scores of player pn over the scored rounds ys
RECURSIVE ScoreSum(_, _)
ScoreSum(pn, ys) ==
    IF ys = {} THEN Num(0, 1)
    ELSE LET y == CHOOSE y \in ys : TRUE
         IN  FAdd(PlayedRow(pn, y).score, ScoreSum(pn, ys \ {y}))

\* the sum of the distances (km) of player pn over the scored rounds ys
RECURSIVE DistanceSum(_, _)
DistanceSum(pn, ys) ==
    IF ys = {} THEN Num(0, 1)
    ELSE LET y == CHOOSE y \in ys : TRUE
         IN  FAdd(Km(PlayedRow(pn, y).distance), DistanceSum(pn, ys \ {y}))

\* the sum of the Total column of a leaderboard
RECURSIVE TotalSum(_, _)
TotalSum(table, rows) ==
    IF rows = {} THEN Num(0, 1)
    ELSE LET a == CHOOSE a \in rows : TRUE
         IN  FAdd(table[a].Total, TotalSum(table, rows \ {a}))

\* C11: points leaderboard average.  Every row of the points leaderboard
\* holds as Total the sum of the player's scores over the rounds they played
\* and as Average that Total divided by the number of rounds they played.
PointsAverage ==
    SeasonPrinted =>
        \A a \in Indices(points_table) :
            LET pn == points_table[a].Player
                played == RoundsPlayed(pn)
            IN  /\ FEq(points_table[a].Total, ScoreSum(pn, played))
                /\ FEq(points_table[a].Average,
                       FDiv(ScoreSum(pn, played), Num(Cardinality(played), 1)))

\* the sum of every score of every scored round
RECURSIVE AllScores(_)
AllScores(ys) ==
    IF ys = {} THEN Num(0, 1)
    ELSE LET y == CHOOSE y \in ys : TRUE
         IN  FAdd(FSum([a \in Indices(yielded[y].gdf) |-> yielded[y].gdf[a].score],
                       Indices(yielded[y].gdf)),
                  AllScores(ys \ {y}))

\* C12: leaderboard conservation.  The Totals of the points leaderboard add
\* up to the sum of the scores of all submissions of all scored rounds,
\* rounds of the same name included.
LeaderboardConservation ==
    SeasonPrinted =>
        FEq(TotalSum(points_table, Indices(points_table)), AllScores(Indices(yielded)))

\* the players of the distance leaderboard
DistancePlayers == {distance_table[a].Player : a \in Indices(distance_table)}

NamesScored == {round_names[yielded[y].round] : y \in Indices(yielded)}

\* the scored rounds of name rn that player pn played
PlayedUnder(pn, rn) == {y \in RoundsPlayed(pn) : round_names[yielded[y].round] = rn}

\* the last of a non-empty set of scored rounds
LastOf(ys) == CHOOSE y \in ys : \A z \in ys : z <= y

----------------------------------------------------------------------------
(* Medals *)

\* the competition rank of row a of a scored table: one more than the
\* number of rows with a strictly higher score
CompetitionRank(table, a) ==
    1 + Cardinality({b \in Indices(table) : FLt(table[a].score, table[b].score)})

\* the rows of a scored table placed 1st, 2nd or 3rd
PodiumRows(table) == {a \in Indices(table) : CompetitionRank(table, a) <= 3}

\* C14: medals with ties.  In the round scored, every submission placed
\* 1st, 2nd or 3rd earns Gold, Silver or Bronze, whatever the number of
\* submissions tied for the place: all those tied for the best score get Gold.
MedalsWithTies ==
    \A y \in Indices(yielded) :
        LET table == yielded[y].gdf
        IN  \A a \in PodiumRows(table) :
                /\ table[a].name \in DOMAIN medals
                /\ medals[table[a].name] = <<4 - CompetitionRank(table, a)>>

\* C15: medal conservation.  The number of players who receive a medal from
\* the round scored is the number of its submissions whose competition rank
\* is 1, 2 or 3.
MedalConservation ==
    \A y \in Indices(yielded) :
        Cardinality({pn \in DOMAIN medals : Len(medals[pn]) > 0})
            = Cardinality(PodiumRows(yielded[y].gdf))

\* how many medals of one type a list of medals holds
Held(lst, medal) == Len(SelectSeq(lst, LAMBDA x : x = medal))

\* C16: medal tally.  The table count_medals returns has exactly one row for
\* every player holding at least one medal and none for the others; the row
\* gives the exact number of Gold, Silver and Bronze medals of the player
\* (0 where there is none) and as Medal Score 3 * Gold + 2 * Silver + Bronze;
\* the rows are in descending order of Medal Score.
MedalTally ==
    fn = "count_medals" =>
        /\ \A pn \in DOMAIN medals :
              Cardinality({a \in Indices(medals_table) : medals_table[a].Player = pn})
                  = IF Len(medals[pn]) > 0 THEN 1 ELSE 0
        /\ \A a \in Indices(medals_table) :
              LET lst == medals[medals_table[a].Player]
              IN  /\ medals_table[a].Gold = Held(lst, Gold)
                  /\ medals_table[a].Silver = Held(lst, Silver)
                  /\ medals_table[a].Bronze = Held(lst, Bronze)
                  /\ medals_table[a].MedalScore
                        = 3 * Held(lst, Gold) + 2 * Held(lst, Silver) + Held(lst, Bronze)
        /\ \A a, b \in Indices(medals_table) :
              a < b => medals_table[a].MedalScore >= medals_table[b].MedalScore

\* two players are tallied: the first row holds Gold and Bronze and no
\* Silver, the second a lower Medal Score
MedalTallyWitness ==
    /\ fn = "count_medals"
    /\ Len(medals_table) = 2
    /\ medals_table[1].Gold = 1 /\ medals_table[1].Silver = 0 /\ medals_table[1].Bronze = 1
    /\ medals_table[2].MedalScore < medals_table[1].MedalScore

----------------------------------------------------------------------------
(* The table calc_scores returns and the table it is handed *)

CsvScored == fn \in {"calc_scores", "calc_scores again"} /\ raised = ""

\* C17: scored-round ordering.  The scored table lists the submissions in
\* ascending rank order, and submissions of equal rank in the order they had
\* in the table handed in, so that the input fixes the order of the output.
ScoredOrderStable ==
    CsvScored =>
        \A a, b \in Indices(gdf) :
            a < b => \/ gdf[a].rank < gdf[b].rank
                     \/ gdf[a].rank = gdf[b].rank /\ gdf[a].name < gdf[b].name

\* a call of calc_scores
ScoringStep == fn \in {"main", "calc_scores"} /\ fn' # fn

SameScoring(t1, t2) ==
    /\ Len(t1) = Len(t2)
    /\ \A a \in Indices(t1) : \E b \in Indices(t2) : t2[b] = t1[a]

----------------------------------------------------------------------------
(* Simulation set-up *)

\* C19: determinism.  A second run of the simulation set-up on the same
\* arguments builds the same rounds, with the same targets in the same
\* order, as the first, whichever way the targets are given.
SimulationDeterminism ==
    [][fn = "get_simulation" /\ fn' = "get_simulation again" =>
          /\ sim_rounds' = sim_rounds
          /\ sim_order' = sim_order]_vars

\* the targets get_simulation is given, in input order
SimInputs ==
    IF existing_rounds # <<>>
    THEN [i \in Indices(existing_rounds) |-> existing_rounds[i].target]
    ELSE IF targets # <<>>
    THEN [i \in Indices(PointRows(targets)) |-> PointRows(targets)[i].geometry]
    ELSE IF single_point # <<>> THEN single_point
    ELSE <<>>

\* C20: simulation completeness and order.  The rounds get_simulation hands
\* to the simulation are one for every input round or target, none merged
\* or lost, in the order of the input.
SimulationComplete ==
    fn = "get_simulation" /\ raised = "" =>
        IF num_random_rounds > 0
        THEN Len(sim_rounds) = num_random_rounds
        ELSE /\ Len(sim_rounds) = Len(SimInputs)
             /\ \A i \in Indices(sim_rounds) : sim_rounds[i].value = SimInputs[i]

----------------------------------------------------------------------------
(* The antipode 5K of tpg_score *)

\* C28: antipode override in the main-game formula.  Every submission whose
\* distance is at least 19_995 km has the final score exactly 5000 from
\* tpg_score, whatever the round size (1 included), its rank, the
\* allow_negative setting and the ties of the round.
AntipodeOverride ==
    fn = "tpg_score" =>
        \A i \in Indices(distances) :
            TpgAntipode(i) => FEq(scores[i], Num(5000, 1))

\* tpg_score has scored a lone antipode submission, or a round in which two
\* antipode submissions tie behind a closer one, negative scores allowed
AntipodeOverrideWitness ==
    /\ fn = "tpg_score"
    /\ \/ Len(distances) = 1 /\ TpgAntipode(1)
       \/ /\ allow_negative
          /\ \E i, j, l \in Indices(distances) :
                /\ i # j /\ distances[i] = distances[j] /\ distances[i] > 199950
                /\ ~TpgAntipode(l)

----------------------------------------------------------------------------
(* The winner of a round *)

\* C26: the winner is a closest submission.  In the table calc_scores
\* returns, every submission placed first (of rank 1, or in the first row)
\* has the minimum distance to the target among the submissions of the
\* round, for every world_distance, 5K threshold and flat 5K score.
WinnerClosest ==
    TableReturned =>
        \A a \in Indices(gdf) :
            gdf[a].rank = 1 \/ a = 1 =>
                \A b \in Indices(gdf) : gdf[a].distance <= gdf[b].distance

----------------------------------------------------------------------------
(* Closest-point selection: get_closest_point of lib/geo_utils.py and the  *)
(* two get_best_pic of Get best distances.py and Theoretical best for each *)
(* user.py.  The points lie on the equator and a point is its longitude in *)
(* degrees, so that a distance is the arc between two longitudes, in       *)
(* degrees; points on either side of the target are equally close.         *)

MaxPoints == 3

Lngs == {-1, 1, 3}
TargetLngs == {0, 2}
PointSets == UNION {[1..n -> Lngs] : n \in 0..MaxPoints}
TieOrders == {"first", "last"}

\* haversine_distance along the equator: sin(dlat / 2) is 0 and
\* c = 2 * asin(|sin(dlng / 2)|) is the shorter arc between the longitudes
haversine_distance(lng1, lng2) ==
    LET dlng == Abs(lng2 - lng1)
    IN  IF dlng > 180 THEN 360 - dlng ELSE dlng

\* geod_distance of two points of the equator: the same arc
geod_distance(point1, point2) == haversine_distance(point1, point2)

SetMin(S) == CHOOSE x \in S : \A y \in S : x <= y
SetMax(S) == CHOOSE x \in S : \A y \in S : y <= x

\* min(generator, key=itemgetter(1)): the first pair of the smallest
\* distance; index is the position of the point in the collection
get_closest_point(target_point, pts) ==
    LET dist(i) == geod_distance(target_point, pts[i])
        i == SetMin({a \in Indices(pts) : \A b \in Indices(pts) : dist(a) <= dist(b)})
    IN  [index |-> i, point |-> pts[i], distance |-> dist(i)]

\* get_best_pic of Get best distances.py: numpy.argmin gives the first
\* position of the smallest distance
get_best_pic_argmin(dest, sources) ==
    LET dist(i) == haversine_distance(sources[i], dest)
        shortest == SetMin({a \in Indices(sources) :
                               \A b \in Indices(sources) : dist(a) <= dist(b)})
    IN  [index |-> shortest, point |-> sources[shortest], distance |-> dist(shortest)]

\* the frame of a point set: one row for each point, labelled by its position
PicsFrame(pts) == [i \in Indices(pts) |-> [index |-> i, longitude |-> pts[i]]]

\* pics['distance'] = distances: the column is written into the frame handed in
distance_written_to(pics, target_lng) ==
    Computed([i \in Indices(pics) |->
        [index |-> pics[i].index, longitude |-> pics[i].longitude,
         distance |-> haversine_distance(pics[i].longitude, target_lng)]])

\* sort_values('distance', ascending=True) on the rows idx: ascending
\* distances, the rows of equal distance as the sort of the build leaves
\* them (the default kind is not stable)
RECURSIVE sort_values(_, _, _)
sort_values(pics, idx, tie) ==
    IF idx = {} THEN <<>>
    ELSE LET low == {i \in idx : \A j \in idx : pics[i].distance <= pics[j].distance}
             i == IF tie = "first" THEN SetMin(low) ELSE SetMax(low)
         IN  <<pics[i]>> \o sort_values(pics, idx \ {i}, tie)

\* get_best_pic of Theoretical best for each user.py sorting the frame it
\* is handed in place
get_best_pic_in_place(pics, target_lng, tie) ==
    LET written == distance_written_to(pics, target_lng)
        sorted == sort_values(written, Indices(written), tie)
    IN  [pics |-> sorted, best |-> sorted[1]]

\* get_best_pic of Theoretical best for each user.py: best is the row
\* returned, pics the frame handed in as the call leaves it
get_best_pic(pics, target_lng, tie) ==
    LET written == distance_written_to(pics, target_lng)
        sorted == sort_values(written, Indices(written), tie)
    IN  [pics |-> written, best |-> sorted[1]]

\* the arguments of the scoring functions at their defaults, no season
InitNoScoring ==
    /\ distances = <<>>
    /\ world_distance = 5000
    /\ fivek_score = Num(7500, 1)
    /\ fivek_threshold = 1
    /\ allow_negative = FALSE
    /\ fn = ""
    /\ scores = <<>>
    /\ gdf = <<>>
    /\ place = <<>>
    /\ raised = ""
    /\ columns = {}
    /\ InitSeason
    /\ InitBoards
    /\ InitNoSim

\* a point set and a target are given
InitClosest ==
    /\ points \in PointSets
    /\ target \in TargetLngs
    /\ tie_order \in TieOrders
    /\ closest = <<>>
    /\ InitNoBest
    /\ InitNoCompare
    /\ InitNoOngoing
    /\ InitNoMain
    /\ InitNoPointSets
    /\ InitNoLatest
    /\ InitNoFetch
    /\ InitNoScoring

\* closest = get_closest_point(target, points); min() of nothing raises
GetClosestPoint ==
    /\ fn = ""
    /\ fn' = "get_closest_point"
    /\ IF points = <<>>
       THEN raised' = "ValueError" /\ UNCHANGED closest
       ELSE raised' = "" /\ closest' = get_closest_point(target, points)
    /\ UNCHANGED <<distances, world_distance, fivek_score, fivek_threshold, allow_negative,
                   scores, gdf, place, seasonVars, columns, round_names, boardVars,
                   tableVars, simVars, points, target, tie_order, bestVars, cmpVars,
                   ongoingVars, mainVars, pointSetVars, latestVars, fetchVars>>

\* closest = get_best_pic(dest_row, sources) of Get best distances.py;
\* argmin of nothing raises
GetBestPicArgmin ==
    /\ fn = ""
    /\ fn' = "get_best_pic_argmin"
    /\ IF points = <<>>
       THEN raised' = "ValueError" /\ UNCHANGED closest
       ELSE raised' = "" /\ closest' = get_best_pic_argmin(target, points)
    /\ UNCHANGED <<distances, world_distance, fivek_score, fivek_threshold, allow_negative,
                   scores, gdf, place, seasonVars, columns, round_names, boardVars,
                   tableVars, simVars, points, target, tie_order, bestVars, cmpVars,
                   ongoingVars, mainVars, pointSetVars, latestVars, fetchVars>>

\* closest = get_best_pic(pics, target_lat, target_lng) of Theoretical best
\* for each user.py; iloc[0] of an empty frame raises
GetBestPic ==
    /\ fn = ""
    /\ fn' = "get_best_pic"
    /\ IF points = <<>>
       THEN raised' = "IndexError" /\ UNCHANGED closest
       ELSE LET best == get_best_pic(PicsFrame(points), target, tie_order).best
            IN  /\ raised' = ""
                /\ closest' = [index |-> best.index, point |-> best.longitude,
                               distance |-> best.distance]
    /\ UNCHANGED <<distances, world_distance, fivek_score, fivek_threshold, allow_negative,
                   scores, gdf, place, seasonVars, columns, round_names, boardVars,
                   tableVars, simVars, points, target, tie_order, bestVars, cmpVars,
                   ongoingVars, mainVars, pointSetVars, latestVars, fetchVars>>

NextClosest == GetClosestPoint \/ GetBestPicArgmin \/ GetBestPic

SpecClosest == InitClosest /\ [][NextClosest]_vars

----------------------------------------------------------------------------
(* Closest-point selection *)

Selected == fn \in {"get_closest_point", "get_best_pic_argmin", "get_best_pic"} /\ raised = ""

\* C22: closest-point selection.  For a non-empty point set and a target,
\* the point selected is no farther from the target than any point of the
\* set, and of several equally close points the first of the set is selected.
ClosestFirst ==
    Selected =>
        /\ closest.point = points[closest.index]
        /\ closest.distance = haversine_distance(closest.point, target)
        /\ \A j \in Indices(points) :
              closest.distance <= haversine_distance(points[j], target)
        /\ \A j \in 1..(closest.index - 1) :
              closest.distance < haversine_distance(points[j], target)

----------------------------------------------------------------------------
(* get_theoretical_best_submissions of Theoretical best for each user.py:  *)
(* process_map runs _get_new_round_rows once for each round.  A dict is    *)
(* the sequence of its items; a round's number is its position in rounds.  *)

MaxPics == 2
MaxBestRounds == 2

Usernames == <<"ann", "bob">>

\* group[['latitude', 'longitude']].drop_duplicates(): a user's distinct
\* pictures, at least one
PicsFrames ==
    {PicsFrame(pts) : pts \in {q \in PointSets :
        /\ Len(q) \in 1..MaxPics
        /\ \A i, j \in Indices(q) : i # j => q[i] # q[j]}}

BestRounds == UNION {[1..n -> TargetLngs] : n \in 0..MaxBestRounds}

\* the submissions are loaded and the rounds fetched, no round is replayed
InitBest ==
    /\ pics_per_user \in {[u \in Indices(Usernames) |-> [username |-> Usernames[u], pics |-> f[u]]] :
                             f \in [Indices(Usernames) -> PicsFrames]}
    /\ tpg_rounds \in BestRounds
    /\ in_process \in BOOLEAN
    /\ tie_order \in TieOrders
    /\ shared_pics = pics_per_user
    /\ new_rows = <<>>
    /\ best_rows = <<>>
    /\ InitNoClosest
    /\ InitNoCompare
    /\ InitNoOngoing
    /\ InitNoMain
    /\ InitNoPointSets
    /\ InitNoLatest
    /\ InitNoFetch
    /\ InitNoScoring

\* _get_new_round_rows(round_num, cc, target_lat, target_lng, pics_per_user):
\* rows are the rows returned, pics_per_user the dict handed in as the
\* call leaves it
get_new_round_rows(round_num, target_lng, ppu, tie) ==
    LET best(u) == get_best_pic(ppu[u].pics, target_lng, tie)
    IN  [rows |-> Computed([u \in Indices(ppu) |->
                     [round |-> round_num, target_lng |-> target_lng,
                      username |-> ppu[u].username,
                      longitude |-> best(u).best.longitude,
                      distance |-> best(u).best.distance]]),
         pics_per_user |-> Computed([u \in Indices(ppu) |->
                     [username |-> ppu[u].username, pics |-> best(u).pics]])]

\* one call of _get_new_round_rows by process_map, for a round not yet
\* done; the calls complete in any order.  In a pool of processes the call
\* works on the unpickled copy of its arguments; run in one process it
\* works on the dict the calls before it have written to.
GetNewRoundRows ==
    /\ fn = ""
    /\ \E round_num \in DOMAIN tpg_rounds \ DOMAIN new_rows :
          LET call == get_new_round_rows(round_num, tpg_rounds[round_num],
                                         IF in_process THEN pics_per_user ELSE shared_pics,
                                         tie_order)
          IN  /\ new_rows' = DictSet(new_rows, round_num, call.rows)
              /\ shared_pics' = IF in_process THEN shared_pics ELSE call.pics_per_user
    /\ UNCHANGED <<scoreVars, seasonVars, columns, round_names, boardVars, tableVars, simVars,
                   tie_order, closestVars, pics_per_user, tpg_rounds, in_process, best_rows,
                   cmpVars, ongoingVars, mainVars, pointSetVars, latestVars, fetchVars>>

\* itertools.chain.from_iterable of the results in the order of the rounds
RECURSIVE chain_from_iterable(_, _)
chain_from_iterable(results, n) ==
    IF n = 0 THEN <<>> ELSE chain_from_iterable(results, n - 1) \o results[n]

\* every call has returned: pandas.DataFrame(rows) is returned
ReturnBestRows ==
    /\ fn = ""
    /\ DOMAIN new_rows = DOMAIN tpg_rounds
    /\ fn' = "get_theoretical_best_submissions"
    /\ best_rows' = chain_from_iterable(new_rows, Len(tpg_rounds))
    /\ UNCHANGED <<distances, world_distance, fivek_score, fivek_threshold, allow_negative,
                   scores, gdf, place, raised, seasonVars, columns, round_names, boardVars,
                   tableVars, simVars, tie_order, closestVars, pics_per_user, tpg_rounds,
                   in_process, shared_pics, new_rows, cmpVars, ongoingVars, mainVars,
                   pointSetVars, latestVars, fetchVars>>

NextBest == GetNewRoundRows \/ ReturnBestRows

SpecBest == InitBest /\ [][NextBest]_vars

----------------------------------------------------------------------------
(* The theoretical-best replay, round by round *)

\* the rows of a round replayed on its own, from the pictures as loaded
RowsAlone(round_num) ==
    get_new_round_rows(round_num, tpg_rounds[round_num], pics_per_user, tie_order).rows

\* C21: per-round independence.  The rows computed for a round depend only
\* on the round's target and on the players' point sets, not on the rounds
\* replayed before it in the same process nor on how the rounds are split
\* across processes, although get_best_pic writes a distance column into
\* the table it is handed; so the DataFrame returned is the same whether
\* the rounds are replayed in a pool of processes or one after another.
RoundIndependence ==
    /\ \A round_num \in DOMAIN new_rows : new_rows[round_num] = RowsAlone(round_num)
    /\ fn = "get_theoretical_best_submissions" =>
          best_rows = chain_from_iterable([r \in DOMAIN tpg_rounds |-> RowsAlone(r)],
                                          Len(tpg_rounds))

\* two rounds were replayed in one process, the second one first, and a
\* user's two pictures are equally close to the first round's target but
\* not to the second's
RoundIndependenceWitness ==
    /\ fn = "get_theoretical_best_submissions"
    /\ ~in_process
    /\ Len(tpg_rounds) >= 2
    /\ \E u \in Indices(shared_pics) :
          LET pics == shared_pics[u].pics
          IN  /\ Len(pics) >= 2
              /\ pics[1].distance = haversine_distance(pics[1].longitude, tpg_rounds[1])
              /\ pics[1].distance = pics[2].distance
              /\ haversine_distance(pics[1].longitude, tpg_rounds[2])
                     # haversine_distance(pics[2].longitude, tpg_rounds[2])

----------------------------------------------------------------------------
(* compare_rounds of Simulate rounds.py.  A submission of the historical   *)
(* round is [name, score, rank, longitude], one of the simulated round     *)
(* [name, rank, longitude]; the submissions lie on the equator and have no *)
(* description.  The rank 0 stands for None.  A line printed is the        *)
(* sequence of its pieces, without the round's name in front.              *)

OldScores == {Num(0, 1), Num(2500, 1), Num(5000, 1)}
CmpLngs == {-1, 1}

\* the sequences of distinct player names
NameSeqs ==
    {q \in UNION {[1..n -> Players] : n \in 0..Cardinality(Players)} :
        \A i, j \in Indices(q) : i # j => q[i] # q[j]}

\* a historical round as loaded: scored, with a score and a rank on every
\* submission in whatever order the file holds them, or not scored
OldRounds ==
    UNION {{[is_scored |-> TRUE,
             submissions |-> [i \in Indices(q) |->
                 [name |-> q[i], score |-> sc[i], rank |-> rk[i], longitude |-> lg[i]]]] :
               sc \in [Indices(q) -> OldScores], rk \in [Indices(q) -> 1..Cardinality(Players)],
               lg \in [Indices(q) -> CmpLngs]}
           \cup
           {[is_scored |-> FALSE,
             submissions |-> [i \in Indices(q) |->
                 [name |-> q[i], score |-> None, rank |-> 0, longitude |-> lg[i]]]] :
               lg \in [Indices(q) -> CmpLngs]} : q \in NameSeqs}

\* the submissions of a simulated round: scored, in the order of their ranks
NewRounds ==
    UNION {{[i \in Indices(q) |-> [name |-> q[i], rank |-> i, longitude |-> lg[i]]] :
               lg \in [Indices(q) -> CmpLngs]} : q \in NameSeqs \ {<<>>}}

\* a historical round and the simulated round of the same name are at hand
InitCompare ==
    /\ old_round \in OldRounds
    /\ new_round \in NewRounds
    /\ name \in {""} \cup Players
    /\ printed = <<>>
    /\ tie_order = "first"
    /\ InitNoClosest
    /\ InitNoBest
    /\ InitNoOngoing
    /\ InitNoMain
    /\ InitNoPointSets
    /\ InitNoLatest
    /\ InitNoFetch
    /\ InitNoScoring

\* key=lambda sub: sub.score or float('nan')
score_or_nan(sub) == IF Truthy(sub.score) THEN sub.score ELSE NaN

\* max(subs, key=...) over the first n submissions: a later submission
\* takes over only when its key compares greater
RECURSIVE max_by_score(_, _)
max_by_score(subs, n) ==
    IF n = 1 THEN subs[1]
    ELSE LET so_far == max_by_score(subs, n - 1)
         IN  IF FLt(score_or_nan(so_far), score_or_nan(subs[n])) THEN subs[n] ELSE so_far

\* next((sub for sub in subs if sub.name == name), None): <<>> stands for None
next_named(subs, nm) ==
    LET found == {i \in Indices(subs) : subs[i].name = nm}
    IN  IF found = {} THEN <<>> ELSE <<subs[SetMin(found)]>>

\* the lines of the first half of compare_rounds: the winner
winner_lines(old, new) ==
    IF old.submissions # <<>> /\ old.is_scored
    THEN LET old_winner == max_by_score(old.submissions, Len(old.submissions))
         IN  IF old_winner.name # new[1].name
             THEN <<<<"Winner was ", old.submissions[1].name, ", now ", new[1].name>>>>
             ELSE <<>>
    ELSE <<>>

\* the lines of the second half: the player looked at, when old is their
\* historical submission and new their simulated one
player_lines(old_sub, new_sub) ==
    (IF old_sub.rank # 0 /\ new_sub.rank # 0 /\ old_sub.rank # new_sub.rank
     THEN <<<<"Placing changed from ", old_sub.rank, " to ", new_sub.rank>>>>
     ELSE <<>>)
    \o
    (IF old_sub.longitude # new_sub.longitude
     THEN <<<<"Previously submitted ", format_xy(old_sub.longitude, 0),
              ", now would submit ", format_xy(new_sub.longitude, 0)>>>>
     ELSE <<>>)

\* compare_rounds(old_round, new_round, name): the lines it prints and the
\* exception it ends with
compare_rounds(old, new, nm) ==
    LET old_sub == next_named(old.submissions, nm)
        new_sub == next_named(new, nm)
    IN  IF nm = "" \/ old_sub = <<>>
        THEN [printed |-> winner_lines(old, new), raised |-> ""]
        ELSE IF new_sub = <<>>
        THEN [printed |-> winner_lines(old, new), raised |-> "StopIteration"]
        ELSE [printed |-> winner_lines(old, new) \o player_lines(old_sub[1], new_sub[1]),
              raised |-> ""]

CompareRounds ==
    /\ fn = ""
    /\ fn' = "compare_rounds"
    /\ printed' = compare_rounds(old_round, new_round, name).printed
    /\ raised' = compare_rounds(old_round, new_round, name).raised
    /\ UNCHANGED <<distances, world_distance, fivek_score, fivek_threshold, allow_negative,
                   scores, gdf, place, seasonVars, columns, round_names, boardVars,
                   tableVars, simVars, tie_order, closestVars, bestVars,
                   old_round, new_round, name, ongoingVars, mainVars, pointSetVars,
                   latestVars, fetchVars>>

NextCompare == CompareRounds

SpecCompare == InitCompare /\ [][NextCompare]_vars

----------------------------------------------------------------------------
(* Comparison mode *)

\* the players of the highest score of the historical round
HistoricalWinners ==
    {s.name : s \in {old_round.submissions[i] : i \in
        {a \in Indices(old_round.submissions) :
            \A b \in Indices(old_round.submissions) :
                FLe(old_round.submissions[b].score, old_round.submissions[a].score)}}}

WinnerLines == {i \in Indices(printed) : printed[i][1] = "Winner was "}

\* C23: winner divergence.  For a scored historical round and its
\* simulated counterpart a winner-changed line is printed exactly when the
\* highest-scoring historical submission belongs to another player than
\* the first simulated submission, and the previous winner it names is
\* that highest-scoring player, whatever the order and the scores (0
\* included) of the historical submissions.
WinnerDivergence ==
    fn = "compare_rounds" /\ old_round.is_scored /\ old_round.submissions # <<>> =>
        /\ WinnerLines # {} <=> new_round[1].name \notin HistoricalWinners
        /\ \A i \in WinnerLines : printed[i][2] \in HistoricalWinners

----------------------------------------------------------------------------
(* --ongoing-round: the script is run on a tracker without the option and  *)
(* then again with it.                                                     *)

\* the Season of the run that has ended is kept, and score_kml starts
\* again on the same file with ignore_ongoing=True
ScoreKmlAgain ==
    /\ fn = "output_season" /\ raised = "" /\ ~ignore_ongoing
    /\ season' = [points_leaderboard |-> points_leaderboard,
                  distance_leaderboard |-> distance_leaderboard,
                  medals |-> medals]
    /\ ignore_ongoing' = TRUE
    /\ fn' = "score_kml"
    /\ pos' = 1
    /\ yielded' = <<>>
    /\ points_leaderboard' = <<>>
    /\ distance_leaderboard' = <<>>
    /\ medals' = <<>>
    /\ points_table' = <<>>
    /\ distance_table' = <<>>
    /\ medals_table' = <<>>
    /\ UNCHANGED <<distances, world_distance, fivek_score, fivek_threshold, allow_negative,
                   scores, gdf, place, raised, rounds, version, round_names, columns,
                   simVars, tie_order, closestVars, bestVars, cmpVars, mainVars, pointSetVars,
                   latestVars, fetchVars>>

NextOngoing ==
    \/ IterSkipEmpty \/ IterYield \/ IterEmptyTodo \/ IterYieldTodo
    \/ ScoreKmlNoRounds \/ OutputSeason \/ ScoreKmlAgain

\* a player is not at the same distance in every round: bob has a second one
OngoingSubmissions == Submissions \cup {[name |-> "bob", distance |-> 40000]}

OngoingRounds ==
    {r \in UNION {[1..n -> OngoingSubmissions] : n \in 0..MaxSubs} :
        find_duplicates([i \in Indices(r) |-> r[i].name]) = {}}

OngoingRoundSeqs == UNION {[1..n -> OngoingRounds] : n \in 0..MaxRounds}

InitOngoing ==
    /\ rounds \in OngoingRoundSeqs
    /\ round_names \in [Indices(rounds) -> RoundLabels]
    /\ version \in {"todo", "checked"}
    /\ pos = 1
    /\ yielded = <<>>
    /\ distances = <<>>
    /\ world_distance = 5000
    /\ fivek_score = Num(7500, 1)
    /\ fivek_threshold = 1
    /\ allow_negative = FALSE
    /\ fn = "score_kml"
    /\ scores = <<>>
    /\ gdf = <<>>
    /\ place = <<>>
    /\ raised = ""
    /\ columns = KmlColumns
    /\ InitBoards
    /\ InitNoExtra
    /\ InitNoSim

SpecOngoing == InitOngoing /\ [][NextOngoing]_vars

----------------------------------------------------------------------------
(* The ongoing round *)

OngoingPrinted == fn = "output_season" /\ ignore_ongoing

IsPrefix(s, t) == Len(s) <= Len(t) /\ \A i \in Indices(s) : s[i] = t[i]

\* is every entry of a leaderboard dict held, with the same value, by another
SameEntries(board, other) ==
    \A rn \in DOMAIN board : \A pn \in DOMAIN board[rn] :
        /\ rn \in DOMAIN other
        /\ pn \in DOMAIN other[rn]
        /\ FEq(board[rn][pn], other[rn][pn])

\* C24: ongoing-round exclusion.  With the ongoing-round option the last
\* round contributes nothing to the points leaderboard, the distance
\* leaderboard and the medals, and every other round contributes exactly
\* what it contributes without the option: what the leaderboards hold with
\* the option is what they hold of those rounds without it.
OngoingExcluded ==
    OngoingPrinted =>
        /\ \A y \in Indices(yielded) : yielded[y].round < Len(rounds)
        /\ \A pn \in DOMAIN medals :
              Len(medals[pn]) = Cardinality({y \in RoundsPlayed(pn) : PlayedRow(pn, y).rank <= 3})
        /\ SameEntries(points_leaderboard, season.points_leaderboard)
        /\ SameEntries(distance_leaderboard, season.distance_leaderboard)
        /\ \A pn \in DOMAIN medals :
              pn \in DOMAIN season.medals /\ IsPrefix(medals[pn], season.medals[pn])

----------------------------------------------------------------------------
(* main of Score submissions.py: rounds are loaded from one or more paths, *)
(* sorted by number, and those that are not scored yet are scored.          *)

MaxLoaded == 3
MaxNumber == 2

\* how far each player's picture is from the target of a round
LoadLocation == [n \in Players |-> IF n = "ann" THEN 10 ELSE 20]

\* what a JSON file stores for a player of a round that has been scored
StoredScore == [n \in Players |-> IF n = "ann" THEN 40 ELSE 30]
StoredRank == [n \in Players |-> IF n = "ann" THEN 1 ELSE 2]

\* --world-distance
MainWorldDistances == {100, 200}

\* a submission without, and one with, distance, score and rank; an absent
\* value (None) is the empty sequence
unscored_submission(n) ==
    [name |-> n, location |-> LoadLocation[n], distance |-> <<>>, score |-> <<>>,
     rank |-> <<>>]

stored_submission(n) ==
    [name |-> n, location |-> LoadLocation[n], distance |-> <<LoadLocation[n]>>,
     score |-> <<StoredScore[n]>>, rank |-> <<StoredRank[n]>>]

UnscoredLists ==
    {<<unscored_submission("ann")>>,
     <<unscored_submission("bob"), unscored_submission("ann")>>}

StoredLists ==
    {<<stored_submission("ann")>>,
     <<stored_submission("ann"), stored_submission("bob")>>}

\* the rounds of a JSON file, and those of a submission tracker
JsonRounds ==
    {[number |-> n, submissions |-> subs] :
        n \in 1..MaxNumber, subs \in UnscoredLists \cup StoredLists}

JsonFiles(n) == UNION {[1..k -> JsonRounds] : k \in 0..n}

Trackers(n) == UNION {[1..k -> UnscoredLists] : k \in 0..n}

\* Round.is_scored
is_scored(r) == \A i \in Indices(r.submissions) : r.submissions[i].score # <<>>

\* list.sort(key=...): ascending by key, equal keys in their order of before
list_sort(s, keys) ==
    LET before(i, j) == keys[i] < keys[j] \/ (keys[i] = keys[j] /\ i < j)
        order == [k \in Indices(s) |->
                     CHOOSE i \in Indices(s) :
                         Cardinality({j \in Indices(s) : before(j, i)}) = k - 1]
    IN  [k \in Indices(s) |-> s[order[k]]]

\* score_round: a new round, each submission with its distance, its score
\* under the options and its rank, the submissions in order of rank
score_round(r, opts) ==
    LET subs == r.submissions
        rank_of(i) ==
            1 + Cardinality({j \in Indices(subs) : subs[j].location < subs[i].location})
        score_of(i) ==
            IF opts.clip_negative /\ subs[i].location > opts.world_distance_km
            THEN 0
            ELSE opts.world_distance_km - subs[i].location
        scored == [i \in Indices(subs) |->
                     [subs[i] EXCEPT !.distance = <<subs[i].location>>,
                                     !.score = <<score_of(i)>>,
                                     !.rank = <<rank_of(i)>>]]
    IN  [r EXCEPT !.submissions =
            list_sort(scored, [i \in Indices(subs) |-> rank_of(i)])]

\* convert_submission_tracker(path, start_num): the rounds of the tracker,
\* numbered from start_num on
convert_submission_tracker(tracker, start_num) ==
    [i \in Indices(tracker) |-> [number |-> start_num + i - 1, submissions |-> tracker[i]]]

\* every round is scored again, whether it is scored or not
score_every_round(rs, opts) == [i \in Indices(rs) |-> score_round(rs[i], opts)]

\* scored_rounds = [r if r.is_scored else score_round(r, options, ...) for r in rounds]
score_unscored(rs, opts) ==
    [i \in Indices(rs) |-> IF is_scored(rs[i]) THEN rs[i] ELSE score_round(rs[i], opts)]

InitMain ==
    /\ main_rounds = <<>>
    /\ last_round_num = 0
    /\ options \in {[world_distance_km |-> w, clip_negative |-> TRUE] : w \in MainWorldDistances}
    /\ ongoing_round \in BOOLEAN
    /\ scored_rounds = <<>>
    /\ leaderboard_rounds = <<>>
    /\ tie_order = "first"
    /\ InitNoClosest
    /\ InitNoBest
    /\ InitNoCompare
    /\ InitNoOngoing
    /\ InitNoPointSets
    /\ InitNoLatest
    /\ InitNoFetch
    /\ InitNoScoring

\* one turn of the loop over the paths
LoadPath(loaded) ==
    /\ fn = ""
    /\ raised = ""
    /\ IF loaded = <<>>
       THEN /\ raised' = "ValueError"
            /\ UNCHANGED <<main_rounds, last_round_num>>
       ELSE /\ raised' = raised
            /\ last_round_num' = SetMax({loaded[i].number : i \in Indices(loaded)})
            /\ main_rounds' = main_rounds \o loaded
    /\ UNCHANGED <<distances, world_distance, fivek_score, fivek_threshold, allow_negative,
                   fn, scores, gdf, place, seasonVars, columns, round_names, boardVars,
                   tableVars, simVars, tie_order, closestVars, bestVars, cmpVars,
                   ongoingVars, options, ongoing_round, scored_rounds,
                   leaderboard_rounds, pointSetVars, latestVars, fetchVars>>

\* a path with another suffix than kml or kmz
LoadRounds ==
    \E loaded \in JsonFiles(MaxLoaded - Len(main_rounds)) : LoadPath(loaded)

\* a kml or kmz path
ConvertSubmissionTracker ==
    \E tracker \in Trackers(MaxLoaded - Len(main_rounds)) :
        LoadPath(convert_submission_tracker(tracker, last_round_num + 1))

\* the rest of main, from rounds.sort to the call of make_leaderboards
ScoreRounds ==
    /\ fn = ""
    /\ raised = ""
    /\ main_rounds # <<>>
    /\ fn' = "make_leaderboards"
    /\ main_rounds' = list_sort(main_rounds,
                                [i \in Indices(main_rounds) |-> main_rounds[i].number])
    /\ scored_rounds' = score_unscored(main_rounds', options)
    /\ leaderboard_rounds' = IF ongoing_round
                             THEN SubSeq(scored_rounds', 1, Len(scored_rounds') - 1)
                             ELSE scored_rounds'
    /\ UNCHANGED <<distances, world_distance, fivek_score, fivek_threshold, allow_negative,
                   scores, gdf, place, raised, seasonVars, columns, round_names, boardVars,
                   tableVars, simVars, tie_order, closestVars, bestVars, cmpVars,
                   ongoingVars, last_round_num, options, ongoing_round, pointSetVars,
                   latestVars, fetchVars>>

NextMain == LoadRounds \/ ConvertSubmissionTracker \/ ScoreRounds

SpecMain == InitMain /\ [][NextMain]_vars

----------------------------------------------------------------------------
(* Rounds that are already scored *)

\* the score the command-line options give a submission
OptionsScore(sub) == options.world_distance_km - sub.location

\* C25: already-scored rounds are passed through.  A loaded round that is
\* scored already is handed on as it is, with its stored distance, score
\* and rank, the scoring options are applied to the unscored rounds only,
\* and every round of the list handed to make_leaderboards is scored, the
\* list being in ascending order of round number.
ScoredPassedThrough ==
    fn = "make_leaderboards" =>
        /\ Len(scored_rounds) = Len(main_rounds)
        /\ \A i \in Indices(main_rounds) :
              IF is_scored(main_rounds[i])
              THEN scored_rounds[i] = main_rounds[i]
              ELSE /\ scored_rounds[i].number = main_rounds[i].number
                   /\ \A k \in Indices(scored_rounds[i].submissions) :
                         LET sub == scored_rounds[i].submissions[k]
                         IN  /\ sub.score = <<OptionsScore(sub)>>
                             /\ sub.distance = <<sub.location>>
                             /\ sub.rank = <<k>>
        /\ \A i \in Indices(leaderboard_rounds) : is_scored(leaderboard_rounds[i])
        /\ \A i, j \in Indices(leaderboard_rounds) :
              i < j => leaderboard_rounds[i].number <= leaderboard_rounds[j].number

\* a stored round whose scores are not those of the options and an unscored
\* round, loaded out of order, are both handed to make_leaderboards
ScoredPassedThroughWitness ==
    /\ fn = "make_leaderboards"
    /\ Len(leaderboard_rounds) >= 2
    /\ \E i, j \in Indices(leaderboard_rounds) :
          /\ leaderboard_rounds[i].number < leaderboard_rounds[j].number
          /\ \E a, b \in Indices(main_rounds) :
                /\ is_scored(main_rounds[a])
                /\ ~is_scored(main_rounds[b])
                /\ leaderboard_rounds[i] = scored_rounds[a]
                /\ leaderboard_rounds[j] = scored_rounds[b]
                /\ \E k \in Indices(main_rounds[a].submissions) :
                      main_rounds[a].submissions[k].score
                          # <<OptionsScore(main_rounds[a].submissions[k])>>

----------------------------------------------------------------------------
(* The point sets of the simulated players: load_point_sets, and get_pics  *)
(* of the earlier revision.  A dict is the sequence of its items in        *)
(* insertion order; the points of a set are named by where they come from. *)

MaxFolderFiles == 2
MaxAdded == 1

\* how many pictures each player has submitted
NumPics == [n \in Players |-> IF n = "ann" THEN 2 ELSE 1]

SubsPerUser ==
    {<<>>, <<[key |-> "ann", value |-> "subs"]>>, <<[key |-> "bob", value |-> "subs"]>>,
     <<[key |-> "ann", value |-> "subs"], [key |-> "bob", value |-> "subs"]>>}

\* no display names, or one display name that two usernames share
PlayerNames == {<<>>, [n \in Players |-> "ann"]}

Thresholds == {<<>>, <<2>>}

\* the stems of the files of a folder: a.geojson and a.gpkg have one stem
Folders == UNION {[1..n -> Players] : n \in 0..MaxFolderFiles}

FolderLists == UNION {[1..n -> Folders] : n \in 0..MaxAdded}

AddedPlayers == UNION {[1..n -> Players] : n \in 0..MaxAdded}

\* d[k] = v
dict_set(d, k, v) ==
    IF \E i \in Indices(d) : d[i].key = k
    THEN [i \in Indices(d) |-> IF d[i].key = k THEN [key |-> k, value |-> v] ELSE d[i]]
    ELSE Append(d, [key |-> k, value |-> v])

\* {key_of(k): v for k, v in d.items() if keep(k)}, items 1..n of d
RECURSIVE dict_comprehension(_, _, _, _)
dict_comprehension(d, n, names, th) ==
    IF n = 0 THEN <<>>
    ELSE LET rest == dict_comprehension(d, n - 1, names, th)
             k == d[n].key
         IN  IF th = <<>> \/ NumPics[k] >= th[1]
             THEN dict_set(rest, IF k \in DOMAIN names THEN names[k] ELSE k, d[n].value)
             ELSE rest

PointSet(frame, nm) == [name |-> nm, points |-> frame]

\* load_point_sets_from_folder: one PointSet per file, named by its stem
load_point_sets_from_folder(folder) ==
    [i \in Indices(folder) |-> PointSet("folder", folder[i])]

RECURSIVE from_folders(_, _)
from_folders(folders, n) ==
    IF n = 0 THEN <<>>
    ELSE from_folders(folders, n - 1) \o load_point_sets_from_folder(folders[n])

load_point_sets(subs, names, nm, has_path, th, folders, players) ==
    LET gdf_per_user == dict_comprehension(subs, Len(subs), names, th)
        replaced == IF has_path /\ nm # ""
                    THEN dict_set(gdf_per_user, nm, "points_path")
                    ELSE gdf_per_user
        sets == [i \in Indices(replaced) |-> PointSet(replaced[i].value, replaced[i].key)]
                \o from_folders(folders, Len(folders))
                \o [i \in Indices(players) |-> PointSet("player", players[i])]
    IN  [point_sets |-> sets,
         raised |-> IF sets = <<>> THEN "RuntimeError" ELSE ""]

RECURSIVE add_players(_, _, _)
add_players(d, players, n) ==
    IF n = 0 THEN d
    ELSE dict_set(add_players(d, players, n - 1), players[n], "player")

get_pics(subs, nm, has_path, th, players) ==
    LET kept == dict_comprehension(subs, Len(subs), <<>>, th)
        added == add_players(kept, players, Len(players))
        result == IF has_path /\ nm # "" THEN dict_set(added, nm, "points_path") ELSE added
    IN  [pics |-> result,
         raised |-> IF result = <<>> THEN "RuntimeError" ELSE ""]

InitPointSets ==
    /\ subs_per_user \in SubsPerUser
    /\ player_names \in PlayerNames
    /\ threshold \in Thresholds
    /\ points_path \in BOOLEAN
    /\ name \in {""} \cup Players
    /\ additional_folders \in FolderLists
    /\ additional_players \in AddedPlayers
    /\ point_sets = <<>>
    /\ all_pics = <<>>
    /\ old_round = <<>>
    /\ new_round = <<>>
    /\ printed = <<>>
    /\ tie_order = "first"
    /\ InitNoClosest
    /\ InitNoBest
    /\ InitNoOngoing
    /\ InitNoMain
    /\ InitNoLatest
    /\ InitNoFetch
    /\ InitNoScoring

LoadPointSets ==
    /\ fn = ""
    /\ fn' = "load_point_sets"
    /\ LET r == load_point_sets(subs_per_user, player_names, name, points_path, threshold,
                                additional_folders, additional_players)
       IN  /\ point_sets' = r.point_sets
           /\ raised' = r.raised
    /\ UNCHANGED <<distances, world_distance, fivek_score, fivek_threshold, allow_negative,
                   scores, gdf, place, seasonVars, columns, round_names, boardVars,
                   tableVars, simVars, tie_order, closestVars, bestVars, cmpVars,
                   ongoingVars, mainVars, subs_per_user, player_names, threshold,
                   points_path, additional_folders, additional_players, all_pics, latestVars,
                   fetchVars>>

GetPics ==
    /\ fn = ""
    /\ fn' = "get_pics"
    /\ LET r == get_pics(subs_per_user, name, points_path, threshold, additional_players)
       IN  /\ all_pics' = r.pics
           /\ raised' = r.raised
    /\ UNCHANGED <<distances, world_distance, fivek_score, fivek_threshold, allow_negative,
                   scores, gdf, place, seasonVars, columns, round_names, boardVars,
                   tableVars, simVars, tie_order, closestVars, bestVars, cmpVars,
                   ongoingVars, mainVars, subs_per_user, player_names, threshold,
                   points_path, additional_folders, additional_players, point_sets,
                   latestVars, fetchVars>>

NextPointSets == LoadPointSets \/ GetPics

SpecPointSets == InitPointSets /\ [][NextPointSets]_vars

----------------------------------------------------------------------------
(* The players that are simulated *)

\* C27: unique simulated players.  The point sets handed to the simulation
\* never hold two sets of one player name, whatever per-player
\* submissions, --points-path, --add-from-folder and --add-player are
\* given.
UniquePlayers ==
    /\ fn = "load_point_sets" =>
          \A i, j \in Indices(point_sets) :
              point_sets[i].name = point_sets[j].name => i = j
    /\ fn = "get_pics" =>
          \A i, j \in Indices(all_pics) : all_pics[i].key = all_pics[j].key => i = j

----------------------------------------------------------------------------
(* latest_file_matching_format_pattern.  A file name is the sequence of    *)
(* the code points of its characters, and paths of one folder compare as   *)
(* their names do: as strings.                                             *)

MaxFileNum == 11

\* the code points of "0", ".", "s", "{" and "}"
Ord == [zero |-> 48, dot |-> 46, s |-> 115, open |-> 123, close |-> 125]

\* str(n) for n >= 0
RECURSIVE str(_)
str(n) == IF n < 10 THEN <<Ord.zero + n>> ELSE str(n \div 10) \o <<Ord.zero + (n % 10)>>

\* the name "{}." of a path with the pattern, and the name "s." of one without
PatternName == <<Ord.open, Ord.close, Ord.dot>>
PlainName == <<Ord.s, Ord.dot>>

HasPattern(nm) == \E i \in 1..(Len(nm) - 1) : nm[i] = Ord.open /\ nm[i + 1] = Ord.close

\* path.name.format(n): the name with {} replaced by str(n)
RECURSIVE format_name(_, _)
format_name(nm, n) ==
    IF nm = <<>> THEN <<>>
    ELSE IF Len(nm) >= 2 /\ nm[1] = Ord.open /\ nm[2] = Ord.close
    THEN str(n) \o format_name(SubSeq(nm, 3, Len(nm)), n)
    ELSE <<nm[1]>> \o format_name(Tail(nm), n)

\* a < b for two strings
str_lt(a, b) ==
    \/ Len(a) < Len(b) /\ \A i \in Indices(a) : a[i] = b[i]
    \/ \E i \in Indices(a) \cap Indices(b) :
          /\ a[i] < b[i]
          /\ \A j \in 1..(i - 1) : a[j] = b[j]

\* what the files of the folder are named: rounds 1 to MaxFileNum may be there
FileSets == {{format_name(PatternName, n) : n \in S} : S \in SUBSET (1..MaxFileNum)}

\* path.parent.glob(path.name.replace('{}', '*')): * stands for any string
glob(files, nm) ==
    {f \in files : \E i \in 0..Len(f), j \in 0..Len(f) :
        /\ i <= j
        /\ nm = SubSeq(f, 1, i) \o <<Ord.open, Ord.close>> \o SubSeq(f, j + 1, Len(f))}

\* max() of the paths
max_path(S) == CHOOSE f \in S : \A g \in S : ~str_lt(f, g)

InitLatest ==
    /\ path \in {PatternName, PlainName}
    /\ parent_files \in FileSets
    /\ latest_path = <<>>
    /\ tie_order = "first"
    /\ InitNoClosest
    /\ InitNoBest
    /\ InitNoCompare
    /\ InitNoOngoing
    /\ InitNoMain
    /\ InitNoPointSets
    /\ InitNoFetch
    /\ InitNoScoring

LatestFileMatchingFormatPattern ==
    /\ fn = ""
    /\ fn' = "latest_file_matching_format_pattern"
    /\ IF ~HasPattern(path)
       THEN latest_path' = path /\ raised' = raised
       ELSE IF glob(parent_files, path) = {}
       THEN latest_path' = latest_path /\ raised' = "ValueError"
       ELSE latest_path' = max_path(glob(parent_files, path)) /\ raised' = raised
    /\ UNCHANGED <<distances, world_distance, fivek_score, fivek_threshold, allow_negative,
                   scores, gdf, place, seasonVars, columns, round_names, boardVars,
                   tableVars, simVars, tie_order, closestVars, bestVars, cmpVars,
                   ongoingVars, mainVars, pointSetVars, path, parent_files, fetchVars>>

NextLatest == LatestFileMatchingFormatPattern

SpecLatest == InitLatest /\ [][NextLatest]_vars

----------------------------------------------------------------------------
(* The latest cached file *)

\* the numbers of the files that match the pattern
MatchingNumbers == {n \in 1..MaxFileNum : format_name(path, n) \in parent_files}

\* C29: latest cached file.  Of the existing files that match the pattern,
\* the one returned is the one whose substituted part is the highest
\* number.
LatestIsHighest ==
    fn = "latest_file_matching_format_pattern" /\ HasPattern(path) /\ raised = "" =>
        latest_path = format_name(path, SetMax(MatchingNumbers))

----------------------------------------------------------------------------
(* get_all_submissions: the rounds are requested one after another until   *)
(* one of them comes back empty.                                           *)

MaxRoundNum == 4

\* what get_round_submissions may return: no submission, one or two
RoundSubs == {<<>>, <<"ann">>, <<"ann", "bob">>}

MaxRoundNums == {<<>>} \cup {<<n>> : n \in 0..MaxRoundNum}

\* (max_round_num is None) or (round_num <= max_round_num + 1)
while_condition_one_more(rn, mx) == IF mx = <<>> THEN TRUE ELSE rn <= mx[1] + 1

\* (max_round_num is None) or (round_num <= max_round_num)
while_condition(rn, mx) == IF mx = <<>> THEN TRUE ELSE rn <= mx[1]

\* 'ongoing' if round_num == max_round_num else round_num
is_ongoing(rn, mx) == IF mx = <<>> THEN FALSE ELSE rn = mx[1]

InitFetch ==
    /\ max_round_num \in MaxRoundNums
    /\ cur_round_num = 1
    /\ all_submissions = <<>>
    /\ requests = <<>>
    /\ tie_order = "first"
    /\ InitNoClosest
    /\ InitNoBest
    /\ InitNoCompare
    /\ InitNoOngoing
    /\ InitNoMain
    /\ InitNoPointSets
    /\ InitNoLatest
    /\ InitNoScoring

\* one turn of the loop: the round has submissions
FetchRound ==
    /\ fn = ""
    /\ while_condition(cur_round_num, max_round_num)
    /\ cur_round_num <= MaxRoundNum
    /\ \E round_subs \in RoundSubs \ {<<>>} :
          /\ requests' = Append(requests,
                                [round |-> cur_round_num,
                                 ongoing |-> is_ongoing(cur_round_num, max_round_num),
                                 returned |-> round_subs])
          /\ all_submissions' = dict_set(all_submissions, cur_round_num, round_subs)
    /\ cur_round_num' = cur_round_num + 1
    /\ UNCHANGED <<distances, world_distance, fivek_score, fivek_threshold, allow_negative,
                   fn, scores, gdf, place, raised, seasonVars, columns, round_names,
                   boardVars, tableVars, simVars, tie_order, closestVars, bestVars, cmpVars,
                   ongoingVars, mainVars, pointSetVars, latestVars, max_round_num>>

\* the last turn of the loop: the round has no submissions, break and return
FetchEmptyRound ==
    /\ fn = ""
    /\ while_condition(cur_round_num, max_round_num)
    /\ requests' = Append(requests,
                          [round |-> cur_round_num,
                           ongoing |-> is_ongoing(cur_round_num, max_round_num),
                           returned |-> <<>>])
    /\ fn' = "get_all_submissions"
    /\ UNCHANGED <<distances, world_distance, fivek_score, fivek_threshold, allow_negative,
                   scores, gdf, place, raised, seasonVars, columns, round_names,
                   boardVars, tableVars, simVars, tie_order, closestVars, bestVars, cmpVars,
                   ongoingVars, mainVars, pointSetVars, latestVars, max_round_num,
                   cur_round_num, all_submissions>>

\* the condition of the loop is false: return
FetchReturn ==
    /\ fn = ""
    /\ ~while_condition(cur_round_num, max_round_num)
    /\ fn' = "get_all_submissions"
    /\ UNCHANGED <<distances, world_distance, fivek_score, fivek_threshold, allow_negative,
                   scores, gdf, place, raised, seasonVars, columns, round_names,
                   boardVars, tableVars, simVars, tie_order, closestVars, bestVars, cmpVars,
                   ongoingVars, mainVars, pointSetVars, latestVars, fetchVars>>

NextFetch == FetchRound \/ FetchEmptyRound \/ FetchReturn

SpecFetch == InitFetch /\ [][NextFetch]_vars

----------------------------------------------------------------------------
(* The submission fetch loop *)

\* C30: submission fetch loop.  At every step the rounds collected are the
\* round numbers 1..k, each with the submissions its request returned, none
\* of them empty; a request that returns no submissions is the last one, and
\* the function returns after it; with max_round_num given there are at
\* most max_round_num requests, and only the last of them, the one for
\* round max_round_num, asks for 'ongoing'.
FetchLoop ==
    /\ \A i \in Indices(all_submissions) :
          /\ all_submissions[i].key = i
          /\ all_submissions[i].value # <<>>
          /\ all_submissions[i].value = requests[i].returned
    /\ \A i \in Indices(requests) :
          /\ requests[i].round = i
          /\ IF requests[i].returned = <<>>
             THEN i = Len(requests) /\ fn = "get_all_submissions" /\ Len(all_submissions) = i - 1
             ELSE i \in Indices(all_submissions)
    /\ max_round_num # <<>> =>
          /\ Len(requests) <= max_round_num[1]
          /\ \A i \in Indices(requests) :
                requests[i].ongoing <=> i = max_round_num[1]
          /\ \A i \in Indices(requests) :
                requests[i].ongoing => i = Len(requests)

\* max_round_num rounds have been requested, the last as 'ongoing', and all
\* had submissions
FetchLoopWitness ==
    /\ fn = "get_all_submissions"
    /\ max_round_num # <<>>
    /\ max_round_num[1] >= 2
    /\ Len(requests) = max_round_num[1]
    /\ requests[Len(requests)].ongoing
    /\ Len(all_submissions) = max_round_num[1]

\* the loop has stopped at a round without submissions, before max_round_num
FetchStopsWitness ==
    /\ fn = "get_all_submissions"
    /\ max_round_num # <<>>
    /\ Len(requests) < max_round_num[1]
    /\ Len(requests) >= 2
    /\ requests[Len(requests)].returned = <<>>

====
